---- MODULE Spec2Model ----
(***************************************************************************)
(* A model of the migration engine of spotify_data_migration, taken from   *)
(* src/src/spotify_manager.py: the rate-limit-aware call wrapper           *)
(* (SpotifyManager._spotify_api_call), the paginated fetcher               *)
(* (SpotifyManager._fetch_paginated_data) and the batching writers         *)
(* (add_tracks_to_library, remove_tracks_from_library,                     *)
(* create_playlist_and_add_tracks, unfollow_playlist), with the runs of     *)
(* src/src/main.py, the snapshot file of src/src/data_handler.py and the   *)
(* SpotifyClient of src/src/core.                                          *)
(*                                                                         *)
(* The remote service is the environment: each invocation of a wrapped     *)
(* remote call has one Outcome (it returns, or raises one of the           *)
(* exceptions the wrapper distinguishes), chosen nondeterministically.     *)
(***************************************************************************)
EXTENDS Integers, Sequences, FiniteSets, TLC

VARIABLES api, fetch, batch, disk, io, run, env, auth, client

vars == <<api, fetch, batch, disk, io, run, env, auth, client>>

(***************************************************************************)
(* Program constants (src/src/spotify_manager.py:17-21).                   *)
(***************************************************************************)
RATE_LIMIT_STATUS == 429
MAX_RETRIES == 3
INITIAL_RETRY_DELAY == 1
MAX_TRACKS_PER_ADD == 100
MAX_TRACKS_PER_LIKE_DELETE == 50

(***************************************************************************)
(* Bounds of the model.                                                    *)
(***************************************************************************)
\* Retry-After header values that parse as whole seconds: 0..MaxRetryAfter
MaxRetryAfter == 2
\* pages of a paginated source
MaxPages == 3
\* items on one page
MaxPageItems == 2
\* length of a track list handed to a batching writer
MaxTracks == 250
\* remote calls and file operations that fail in one run
MaxFaults == 1
\* items on one page of a listing read by a run
RunPageLimit == 1
\* playlists of an account or of a snapshot
MaxPlaylists == 2
\* tracks of one playlist, and liked songs, of an account or of a snapshot
MaxRunTracks == 2

\* Python's None: the wrapper's failure value, and an empty response body.
None == "None"
\* A non-empty (JSON) response body, returned unchanged by the wrapper.
Body == "body"

Last(s) == s[Len(s)]

\* a slice's upper index is clamped to the length of the list
Min(a, b) == IF a <= b THEN a ELSE b

RECURSIVE Pow2(_)
Pow2(n) == IF n = 0 THEN 1 ELSE 2 * Pow2(n - 1)

(***************************************************************************)
(* Outcomes of one invocation of api_func                                  *)
(* (spotify_manager.py:164), as the except clauses of lines 165-185 tell   *)
(* them apart.  hdr says what e.headers.get('Retry-After', delay) finds:   *)
(* "absent" (no such header), "int" (a string int() parses, value hdrval)  *)
(* or "bad" (a value int() rejects, such as "1.5" or an HTTP date, or an   *)
(* exception whose headers attribute is no map: evaluating line 167 then   *)
(* raises).                                                                *)
(***************************************************************************)
Outcome(kind, status, hdr, hdrval, val) ==
    [kind |-> kind, http_status |-> status, hdr |-> hdr, hdrval |-> hdrval, val |-> val]

Returns == {Outcome("return", 200, "absent", 0, v) : v \in {Body, None}}

RateLimits ==
    {Outcome("SpotifyException", RATE_LIMIT_STATUS, "absent", 0, None),
     Outcome("SpotifyException", RATE_LIMIT_STATUS, "bad", 0, None)}
    \cup {Outcome("SpotifyException", RATE_LIMIT_STATUS, "int", h, None) : h \in 0..MaxRetryAfter}

ApiErrors == {Outcome("SpotifyException", s, "absent", 0, None) : s \in {404, 503}}

Timeout == Outcome("Timeout", 0, "absent", 0, None)

OtherErrors ==
    {Outcome("RequestException", 0, "absent", 0, None),
     Outcome("Exception", 0, "absent", 0, None)}

Outcomes == Returns \cup RateLimits \cup ApiErrors \cup {Timeout} \cup OtherErrors

(***************************************************************************)
(* SpotifyManager._spotify_api_call (spotify_manager.py:154-188).          *)
(* The state of one call of the wrapper: its locals retries and delay,     *)
(* its position (pc = "call": about to invoke api_func at line 164;        *)
(* "done": it has returned ret, or an exception has left it, raised), and  *)
(* two logs: sleeps, the arguments of time.sleep in order, and hist, the   *)
(* outcomes of the invocations of api_func in order.                       *)
(***************************************************************************)
ApiIdle ==
    [pc |-> "idle", retries |-> 0, delay |-> 0, ret |-> None, raised |-> FALSE,
     sleeps |-> <<>>, hist |-> <<>>]

\* lines 156-161: the authentication guard, then retries = 0, delay = INITIAL_RETRY_DELAY
ApiStart(sp) ==
    IF ~sp
    THEN [ApiIdle EXCEPT !.pc = "done"]
    ELSE [ApiIdle EXCEPT !.pc = "call", !.delay = INITIAL_RETRY_DELAY]

\* line 162 with < for <= (a faulty variant of LoopGuard)
LoopGuardExclusive(retries) == retries < MAX_RETRIES

\* line 162: while retries <= MAX_RETRIES
LoopGuard(retries) == retries <= MAX_RETRIES

\* the end of a loop iteration that did not return: back to line 162, and
\* lines 187-188 (return None) when the guard fails
LoopBack(st) ==
    IF LoopGuard(st.retries)
    THEN [st EXCEPT !.pc = "call"]
    ELSE [st EXCEPT !.pc = "done", !.ret = None]

\* lines 166-171 with delay left as it was (a faulty variant of OnRateLimit)
OnRateLimitForgetsDelay(st, o) ==
    IF o.hdr = "bad"
    THEN [st EXCEPT !.pc = "done", !.raised = TRUE]
    ELSE LET retry_after == IF o.hdr = "int" THEN o.hdrval ELSE st.delay
         IN  LoopBack([st EXCEPT !.sleeps = Append(@, retry_after),
                                 !.retries = @ + 1])

\* lines 166-171: a 429 while retries < MAX_RETRIES.  int() of a value it
\* cannot parse raises ValueError inside the except clause, which no
\* sibling except clause catches: the exception leaves the wrapper.
OnRateLimit(st, o) ==
    IF o.hdr = "bad"
    THEN [st EXCEPT !.pc = "done", !.raised = TRUE]
    ELSE LET retry_after == IF o.hdr = "int" THEN o.hdrval ELSE st.delay
         IN  LoopBack([st EXCEPT !.sleeps = Append(@, retry_after),
                                 !.retries = @ + 1,
                                 !.delay = retry_after])

\* lines 175-179 without the doubling (a faulty variant of OnTimeout)
OnTimeoutFlat(st) ==
    LoopBack([st EXCEPT !.sleeps = Append(@, st.delay),
                        !.retries = @ + 1])

\* lines 175-179: requests.exceptions.Timeout
OnTimeout(st) ==
    LoopBack([st EXCEPT !.sleeps = Append(@, st.delay),
                        !.retries = @ + 1,
                        !.delay = @ * 2])

\* lines 163-185: one iteration of the loop, api_func having outcome o
ApiAttempt(st, o) ==
    LET s == [st EXCEPT !.hist = Append(@, o)]
    IN  CASE o.kind = "return" ->
               [s EXCEPT !.pc = "done", !.ret = o.val]
          [] o.kind = "SpotifyException" ->
               IF o.http_status = RATE_LIMIT_STATUS /\ s.retries < MAX_RETRIES
               THEN OnRateLimit(s, o)
               ELSE [s EXCEPT !.pc = "done", !.ret = None]
          [] o.kind = "Timeout" -> OnTimeout(s)
          [] OTHER -> [s EXCEPT !.pc = "done", !.ret = None]

\* every way one call of the wrapper can end, from state st on
RECURSIVE ApiRunsFrom(_)
ApiRunsFrom(st) ==
    IF st.pc = "done"
    THEN {st}
    ELSE UNION {ApiRunsFrom(ApiAttempt(st, o)) : o \in Outcomes}

\* the wrapped call returned (the call succeeded)
ApiSucceeded(st) == st.hist # <<>> /\ Last(st.hist).kind = "return"

\* what the caller of self._spotify_api_call(...) can observe, with the
\* fact it cannot observe (ok: the wrapped call returned)
ApiResult(st) == [ret |-> st.ret, raised |-> st.raised, ok |-> ApiSucceeded(st)]

ApiResults == {ApiResult(st) : st \in ApiRunsFrom(ApiStart(TRUE))}

(***************************************************************************)
(* The wrapper alone: one call, the environment choosing each outcome.     *)
(***************************************************************************)
(***************************************************************************)
(* Paginated sources.  A page is what a list endpoint returns: its items   *)
(* and whether it carries a next cursor.  The items of a source are        *)
(* numbered 1, 2, ... in page order, so that a lost, duplicated or         *)
(* reordered item shows.                                                   *)
(***************************************************************************)
RECURSIVE SumTo(_, _)
SumTo(sizes, k) == IF k = 0 THEN 0 ELSE sizes[k] + SumTo(sizes, k - 1)

PageItems(sizes, i) == [j \in 1..sizes[i] |-> SumTo(sizes, i - 1) + j]

Pages(sizes) ==
    [i \in 1..Len(sizes) |-> [items |-> PageItems(sizes, i), next |-> i < Len(sizes)]]

Sources ==
    {Pages(sizes) : sizes \in UNION {[1..k -> 0..MaxPageItems] : k \in 1..MaxPages}}

RECURSIVE AllItems(_, _)
AllItems(source, k) ==
    IF k = 0 THEN <<>> ELSE AllItems(source, k - 1) \o source[k].items

\* the environment of a run: when limited, at most MaxFaults of the remote
\* calls and file operations of the run fail
EnvFree == [limited |-> FALSE, faults |-> 0]

EnvLimited == [limited |-> TRUE, faults |-> 0]

\* what a remote call or a file operation may do in environment e: succeed (TRUE) or,
\* while the run's fault budget lasts, fail (FALSE)
Fates(e) ==
    IF e.limited /\ e.faults >= MaxFaults THEN {TRUE} ELSE {TRUE, FALSE}

\* environment e after an operation that failed or not
Charged(e, failed) ==
    IF e.limited /\ failed THEN [e EXCEPT !.faults = @ + 1] ELSE e

\* the results of S a wrapped call may end with in environment e
Affordable(S, e) == IF FALSE \in Fates(e) THEN S ELSE {r \in S : r.ok}

\* A list endpoint that succeeds answers with a page, never an empty body
\* (spec 6: list-my-playlists(cursor?) -> page).
PageResults == {r \in ApiResults : r.ok => r.ret = Body}

(***************************************************************************)
(* SpotifyManager._fetch_paginated_data (spotify_manager.py:191-222).      *)
(* items, results and page_count are its locals (results is the index of   *)
(* the page held, 0 for None); calls counts its calls of the wrapper;      *)
(* status says how the call ended ("complete": the loop ended at a page    *)
(* without next cursor; "truncated": a page fetch failed; "unauthenticated"*)
(* : the guard of line 204 returned), which the caller is not told; prev   *)
(* is what the previous call returned.                                     *)
(***************************************************************************)
NoReturn == [returned |-> FALSE, items |-> <<>>, status |-> "none"]

FetchIdle ==
    [pc |-> "idle", sp |-> FALSE, source |-> <<>>, items |-> <<>>, results |-> 0,
     page_count |-> 0, calls |-> 0, status |-> "none", prev |-> NoReturn]

\* a call of _fetch_paginated_data is about to start (line 203: items = [])
FetchCalled(sp, source, prev) ==
    [FetchIdle EXCEPT !.pc = "start", !.sp = sp, !.source = source, !.prev = prev]

\* line 214 with the page put in front (a faulty variant of ExtendItems)
ExtendItemsInFront(items, page) == page.items \o items

\* line 214: items.extend(results['items'])
ExtendItems(items, page) == items \o page.items

\* results = self._spotify_api_call(...) at lines 209 and 217, the wrapper
\* ending as r and the endpoint's page being page number nextpage
AfterPageFetch(f, r, nextpage) ==
    IF r.raised
    THEN [f EXCEPT !.pc = "raised", !.calls = @ + 1, !.status = "truncated"]
    ELSE [f EXCEPT !.pc = "loop", !.calls = @ + 1,
                   !.results = IF r.ret = None THEN 0 ELSE nextpage,
                   !.status = IF r.ok THEN @ ELSE "truncated"]

\* lines 203-209: the guard, and the fetch of the first page
FetchFirst ==
    /\ fetch.pc = "start"
    /\ IF ~fetch.sp
       THEN /\ fetch' = [fetch EXCEPT !.pc = "done", !.status = "unauthenticated"]
            /\ env' = env
       ELSE \E r \in Affordable(PageResults, env) :
              /\ fetch' = AfterPageFetch(fetch, r, 1)
              /\ env' = Charged(env, ~r.ok)
    /\ UNCHANGED <<api, batch, disk, io, run, auth, client>>

\* lines 212-219: one iteration of while results
FetchLoop ==
    /\ fetch.pc = "loop"
    /\ fetch.results # 0
    /\ LET page == fetch.source[fetch.results]
           f == [fetch EXCEPT !.page_count = @ + 1,
                              !.items = ExtendItems(@, page)]
       IN  IF page.next
           THEN \E r \in Affordable(PageResults, env) :
                  /\ fetch' = AfterPageFetch(f, r, fetch.results + 1)
                  /\ env' = Charged(env, ~r.ok)
           ELSE /\ fetch' = [f EXCEPT !.results = 0,
                                      !.status = IF @ = "none" THEN "complete" ELSE @]
                /\ env' = env
    /\ UNCHANGED <<api, batch, disk, io, run, auth, client>>

\* lines 221-222: results is falsy, return items
FetchReturn ==
    /\ fetch.pc = "loop"
    /\ fetch.results = 0
    /\ fetch' = [fetch EXCEPT !.pc = "done"]
    /\ UNCHANGED <<api, batch, disk, io, run, env, auth, client>>

\* the manager is used again: get_all_playlists, get_playlist_tracks and
\* get_liked_songs (lines 224-247) each call _fetch_paginated_data.  One
\* earlier return is remembered, so two calls are followed.
FetchAgain ==
    /\ fetch.pc = "done"
    /\ ~fetch.prev.returned
    /\ \E source \in Sources :
          fetch' = FetchCalled(fetch.sp, source,
                               [returned |-> TRUE, items |-> fetch.items,
                                status |-> fetch.status])
    /\ UNCHANGED <<api, batch, disk, io, run, env, auth, client>>

(***************************************************************************)
(* The writers (spotify_manager.py:249-343).  track_uris is the input      *)
(* list, its elements numbered 1, 2, ... in order; i is the loop variable  *)
(* of "for i in range(0, len(track_uris), MAX)"; calls logs the batch      *)
(* passed to each wrapped chunk call, in call order; errors logs the batch *)
(* numbers the code reports as failed (logger.error) and failed the batch  *)
(* numbers whose wrapped call did not succeed; created says the            *)
(* create-playlist call gave a playlist id; cover is the outcome of the    *)
(* cover upload; caught says the except clause of line 315 ended the       *)
(* operation; new_playlist is what the create-playlist call gave: "none"   *)
(* before it, "raised" when the wrapper raised, "None", "no_id" for a      *)
(* result without an id, "id" for a result with one.                       *)
(***************************************************************************)
Ops ==
    {"add_tracks_to_library", "remove_tracks_from_library",
     "create_playlist_and_add_tracks", "unfollow_playlist"}

LibraryOps == {"add_tracks_to_library", "remove_tracks_from_library"}

\* the per-call maximum each writer batches by (lines 257, 305, 336)
MaxBatch(op) ==
    IF op = "create_playlist_and_add_tracks"
    THEN MAX_TRACKS_PER_ADD
    ELSE MAX_TRACKS_PER_LIKE_DELETE

\* save-tracks, remove-saved-tracks, unfollow-playlist and the cover upload
\* answer with an empty body when they succeed: the wrapped call returns None
EmptyBodyResults == {r \in ApiResults : r.ok => r.ret = None}

\* create-playlist and add-items answer with a JSON body when they succeed
BodyResults == {r \in ApiResults : r.ok => r.ret = Body}

BatchIdle ==
    [op |-> "none", pc |-> "idle", sp |-> FALSE, user_id |-> FALSE, track_uris |-> <<>>,
     i |-> 0, calls |-> <<>>, errors |-> <<>>, failed |-> {}, created |-> FALSE,
     cover |-> "none", caught |-> FALSE, new_playlist |-> "none", images |-> FALSE]

\* add_tracks_to_library called whatever the writer meant (a faulty variant
\* of BatchCalledOn)
BatchCalledOnLibraryAdd(op, sp, user_id, track_uris) ==
    [BatchIdle EXCEPT !.op = "add_tracks_to_library", !.pc = "start", !.sp = sp,
                      !.user_id = user_id, !.track_uris = track_uris]

\* a writer is about to be called on the list track_uris
BatchCalledOn(op, sp, user_id, track_uris) ==
    [BatchIdle EXCEPT !.op = op, !.pc = "start", !.sp = sp, !.user_id = user_id,
                      !.track_uris = track_uris]

\* a writer is about to be called on a list of n tracks
BatchCalled(op, sp, user_id, n) == BatchCalledOn(op, sp, user_id, [k \in 1..n |-> k])

\* the slice one element short (a faulty variant of Slice)
SliceShort(seq, i, max) == SubSeq(seq, i + 1, Min(i + max - 1, Len(seq)))

\* lines 258, 306, 337: batch = track_uris[i:i + MAX]
Slice(seq, i, max) == SubSeq(seq, i + 1, Min(i + max, Len(seq)))

\* lines 257, 305, 336: the step of range(0, len(track_uris), MAX); the loop
\* ends when the next i reaches len(track_uris)
NextIndex(b) ==
    LET i == b.i + MaxBatch(b.op)
    IN  [b EXCEPT !.i = i, !.pc = IF i < Len(b.track_uris) THEN "loop" ELSE "done"]

\* lines 258-263, 306-311, 337-342: one iteration of a batching loop, the
\* wrapper ending as r; "result is None" is what the code takes for failure
BatchStep(b, r) ==
    LET number == (b.i \div MaxBatch(b.op)) + 1
        c == [b EXCEPT !.calls = Append(@, Slice(b.track_uris, b.i, MaxBatch(b.op))),
                       !.failed = IF r.ok THEN @ ELSE @ \cup {number}]
    IN  IF r.raised
        THEN IF b.op = "create_playlist_and_add_tracks"
             THEN [c EXCEPT !.pc = "done", !.caught = TRUE]
             ELSE [c EXCEPT !.pc = "raised"]
        ELSE NextIndex([c EXCEPT !.errors = IF r.ret = None THEN Append(@, number) ELSE @])

\* add_tracks_to_library / remove_tracks_from_library, lines 251-256 and
\* 330-335: the guards before the loop
LibraryStart ==
    /\ batch.op \in LibraryOps
    /\ batch.pc = "start"
    /\ batch' = [batch EXCEPT !.pc = IF batch.sp /\ batch.track_uris # <<>>
                                     THEN "loop" ELSE "done"]
    /\ UNCHANGED <<api, fetch, disk, io, run, env, auth, client>>

\* lines 257-263 and 336-342: one batch of the library loops
LibraryBatch ==
    /\ batch.op \in LibraryOps
    /\ batch.pc = "loop"
    /\ \E r \in Affordable(EmptyBodyResults, env) :
          /\ batch' = BatchStep(batch, r)
          /\ env' = Charged(env, ~r.ok)
    /\ UNCHANGED <<api, fetch, disk, io, run, auth, client>>

\* upload_playlist_cover_image (lines 345-418) as called at line 292: img is
\* "unusable" when the download, the content checks or the scope check end
\* it before the upload, "usable" when the wrapped upload call is made with
\* result r; it is True only when that result is not None, and every
\* exception is caught inside it
CoverUpload(img, r) ==
    IF img = "usable" /\ ~r.raised /\ r.ret # None THEN "set" ELSE "failed"

\* lines 287-292: the images argument of create_playlist_and_add_tracks gives
\* no image URL, or one whose image upload_playlist_cover_image can use or not
Images(b) == IF b.images THEN {"unusable", "usable"} ELSE {"none"}

\* the check of line 279 without its second half (a faulty variant of
\* CreateFailed)
CreateFailedIgnoresId(r, has_id) == r.ret = None

\* line 279: if not new_playlist or 'id' not in new_playlist
CreateFailed(r, has_id) == r.ret = None \/ ~has_id

\* create_playlist_and_add_tracks, lines 269-304: the guard, the
\* create-playlist call, the optional cover image, the empty-list return
CreatePlaylist ==
    /\ batch.op = "create_playlist_and_add_tracks"
    /\ batch.pc = "start"
    /\ IF ~batch.sp \/ ~batch.user_id
       THEN /\ batch' = [batch EXCEPT !.pc = "done"]
            /\ env' = env
       ELSE \E r \in Affordable(BodyResults, env) :
            \E has_id \in IF r.ok THEN Fates(env) ELSE {FALSE} :
              IF r.raised
              THEN /\ batch' = [batch EXCEPT !.pc = "done", !.caught = TRUE,
                                             !.new_playlist = "raised"]
                   /\ env' = Charged(env, TRUE)
              ELSE IF CreateFailed(r, has_id)
              THEN /\ batch' = [batch EXCEPT !.pc = "done",
                                             !.new_playlist = IF r.ret = None THEN "None"
                                                              ELSE "no_id"]
                   /\ env' = Charged(env, TRUE)
              ELSE \E img \in Images(batch) :
                   \E u \in IF img = "usable" THEN Affordable(EmptyBodyResults, env)
                                               ELSE {CHOOSE x \in EmptyBodyResults : x.ok} :
                     /\ batch' = [batch EXCEPT
                                    !.created = TRUE,
                                    !.new_playlist = IF has_id THEN "id" ELSE "no_id",
                                    !.cover = IF img = "none" THEN "none"
                                              ELSE CoverUpload(img, u),
                                    !.pc = IF batch.track_uris = <<>> THEN "done" ELSE "loop"]
                     /\ env' = Charged(env, ~u.ok)
    /\ UNCHANGED <<api, fetch, disk, io, run, auth, client>>

\* lines 305-311: one batch of the track-adding loop
AddItemsBatch ==
    /\ batch.op = "create_playlist_and_add_tracks"
    /\ batch.pc = "loop"
    /\ \E r \in Affordable(BodyResults, env) :
          /\ batch' = BatchStep(batch, r)
          /\ env' = Charged(env, ~r.ok)
    /\ UNCHANGED <<api, fetch, disk, io, run, auth, client>>

\* unfollow_playlist, lines 321-325
UnfollowPlaylist ==
    /\ batch.op = "unfollow_playlist"
    /\ batch.pc = "start"
    /\ IF ~batch.sp
       THEN /\ batch' = [batch EXCEPT !.pc = "done"]
            /\ env' = env
       ELSE \E r \in Affordable(EmptyBodyResults, env) :
              /\ batch' = IF r.raised
                          THEN [batch EXCEPT !.pc = "raised", !.failed = {1}]
                          ELSE [batch EXCEPT !.pc = "done",
                                             !.failed = IF r.ok THEN {} ELSE {1},
                                             !.errors = IF r.ret = None THEN <<1>> ELSE <<>>]
              /\ env' = Charged(env, ~r.ok)
    /\ UNCHANGED <<api, fetch, disk, io, run, auth, client>>

(***************************************************************************)
(* The snapshot file and data_handler.py.  A JSON value is a tagged record:*)
(* a string, a literal (true, false, null), a list, a dict with its keys   *)
(* in insertion order, or an object json cannot encode.  The text of a     *)
(* file is the sequence of JSON tokens it holds (white space left out);    *)
(* json.dump writes it one chunk after the other.                          *)
(***************************************************************************)
Str(s) == [t |-> "str", s |-> s]

Lit(s) == [t |-> "lit", s |-> s]

List(elems) == [t |-> "list", elems |-> elems]

Dict(keys, vals) == [t |-> "dict", keys |-> keys, vals |-> vals]

\* a value of a type json.dump raises TypeError for
Unserializable == [t |-> "object"]

Tok(k, s) == [k |-> k, s |-> s]

Punct(s) == Tok("punct", s)

\* the chunks json.dump(data, f) writes for value v, in order; the token of
\* kind "raise" stands for the TypeError the encoder raises when it reaches
\* a value it cannot encode, after it has yielded every chunk before it
RECURSIVE Chunks(_)
RECURSIVE ChunksOfElems(_, _)
RECURSIVE ChunksOfItems(_, _, _)
ChunksOfElems(elems, k) ==
    IF k > Len(elems) THEN <<>>
    ELSE (IF k > 1 THEN <<Punct(",")>> ELSE <<>>)
         \o Chunks(elems[k]) \o ChunksOfElems(elems, k + 1)

ChunksOfItems(keys, vals, k) ==
    IF k > Len(keys) THEN <<>>
    ELSE (IF k > 1 THEN <<Punct(",")>> ELSE <<>>)
         \o <<Tok("str", keys[k]), Punct(":")>>
         \o Chunks(vals[k]) \o ChunksOfItems(keys, vals, k + 1)

Chunks(v) ==
    CASE v.t = "str" -> <<Tok("str", v.s)>>
      [] v.t = "lit" -> <<Tok("lit", v.s)>>
      [] v.t = "list" -> <<Punct("[")>> \o ChunksOfElems(v.elems, 1) \o <<Punct("]")>>
      [] v.t = "dict" -> <<Punct("{")>> \o ChunksOfItems(v.keys, v.vals, 1) \o <<Punct("}")>>
      [] v.t = "object" -> <<Tok("raise", "TypeError")>>

\* json.dump raises for data when one of its chunks is the raise
Serializable(v) == \A k \in 1..Len(Chunks(v)) : Chunks(v)[k].k # "raise"

\* the file at filepath: whether it exists and the text it holds
NoFile == [exists |-> FALSE, text |-> <<>>]

File(text) == [exists |-> TRUE, text |-> text]

\* the file json.dump(v, f) leaves when it runs to its end
FileOf(v) == File(Chunks(v))

(***************************************************************************)
(* save_data and load_data, one step per file operation.  io.old is the    *)
(* file as it was when the function was called, io.chunks the chunks       *)
(* json.dump has to write and io.pos the number written so far; io.exc is  *)
(* the exception the function raised and io.ret what load_data returned.   *)
(* io.saved is the data save_data wrote to the file before load_data was   *)
(* called on it, io.prev how an earlier call of load_data ended.           *)
(***************************************************************************)
\* no earlier call of load_data
NoLoad == [ended |-> FALSE, exc |-> "none", ret |-> Lit("null")]

IoIdle ==
    [op |-> "none", pc |-> "idle", data |-> Lit("null"), old |-> NoFile,
     chunks |-> <<>>, pos |-> 0, exc |-> "none", ret |-> Lit("null"),
     saved |-> Lit("null"), prev |-> NoLoad]

\* save_data(data, filepath) is about to run, the file being old
SaveCalled(data, old) ==
    [IoIdle EXCEPT !.op = "save_data", !.pc = "open", !.data = data, !.old = old,
                   !.chunks = Chunks(data)]

\* the file opened with its text kept, as mode 'a' would (a faulty variant
\* of OpenForWriting)
OpenForAppending(file) == File(file.text)

\* line 11: open(filepath, 'w', encoding='utf-8') creates the file or
\* truncates it to length zero
OpenForWriting(file) == File(<<>>)

\* line 11: open either raises an IOError (lines 14-16: logged, re-raised),
\* which leaves the file as it was, or truncates the file
SaveOpen ==
    /\ io.op = "save_data"
    /\ io.pc = "open"
    /\ \E opened \in Fates(env) :
          /\ env' = Charged(env, ~opened)
          /\ IF opened
             THEN /\ disk' = OpenForWriting(disk)
                  /\ io' = [io EXCEPT !.pc = "dump"]
             ELSE /\ disk' = disk
                  /\ io' = [io EXCEPT !.pc = "raised", !.exc = "IOError"]
    /\ UNCHANGED <<api, fetch, batch, run, auth, client>>

\* line 12: json.dump writes the next chunk; the encoder raises TypeError at
\* a value it cannot encode (lines 17-19), the write raises IOError when the
\* device fails (lines 14-16); either way the with statement closes the
\* file with the chunks written so far
SaveWrite ==
    /\ io.op = "save_data"
    /\ io.pc = "dump"
    /\ io.pos < Len(io.chunks)
    /\ LET chunk == io.chunks[io.pos + 1]
       IN  IF chunk.k = "raise"
           THEN /\ io' = [io EXCEPT !.pc = "raised", !.exc = "TypeError"]
                /\ UNCHANGED <<disk, env, auth, client>>
           ELSE \E written \in Fates(env) :
                  /\ env' = Charged(env, ~written)
                  /\ IF written
                     THEN /\ disk' = [disk EXCEPT !.text = Append(@, chunk)]
                          /\ io' = [io EXCEPT !.pos = @ + 1]
                     ELSE /\ disk' = disk
                          /\ io' = [io EXCEPT !.pc = "raised", !.exc = "IOError"]
    /\ UNCHANGED <<api, fetch, batch, run, auth, client>>

\* lines 12-13: every chunk is written, the file is closed, save_data returns
SaveClose ==
    /\ io.op = "save_data"
    /\ io.pc = "dump"
    /\ io.pos = Len(io.chunks)
    /\ io' = [io EXCEPT !.pc = "done"]
    /\ UNCHANGED <<api, fetch, batch, disk, run, env, auth, client>>

\* the token at position pos of text, an end marker beyond its end
At(text, pos) == IF pos <= Len(text) THEN text[pos] ELSE Tok("eof", "")

\* the parser's result: the value read and the position after it, or failure
Parsed(val, pos) == [ok |-> TRUE, val |-> val, pos |-> pos]

NotParsed == [ok |-> FALSE, val |-> Lit("null"), pos |-> 0]

\* json.load: the value that starts at position pos of text.  A list is one
\* or more values separated by commas between brackets, or "[]"; a dict is
\* pairs key : value separated by commas between braces, or "{}".
RECURSIVE ParseValue(_, _)
RECURSIVE ParseElems(_, _, _)
RECURSIVE ParseItems(_, _, _, _)
ParseElems(text, pos, elems) ==
    LET v == ParseValue(text, pos)
    IN  IF ~v.ok THEN NotParsed
        ELSE IF At(text, v.pos) = Punct(",")
        THEN ParseElems(text, v.pos + 1, Append(elems, v.val))
        ELSE IF At(text, v.pos) = Punct("]")
        THEN Parsed(List(Append(elems, v.val)), v.pos + 1)
        ELSE NotParsed

ParseItems(text, pos, keys, vals) ==
    IF At(text, pos).k # "str" \/ At(text, pos + 1) # Punct(":") THEN NotParsed
    ELSE LET v == ParseValue(text, pos + 2)
         IN  IF ~v.ok THEN NotParsed
             ELSE IF At(text, v.pos) = Punct(",")
             THEN ParseItems(text, v.pos + 1, Append(keys, text[pos].s), Append(vals, v.val))
             ELSE IF At(text, v.pos) = Punct("}")
             THEN Parsed(Dict(Append(keys, text[pos].s), Append(vals, v.val)), v.pos + 1)
             ELSE NotParsed

ParseValue(text, pos) ==
    LET tok == At(text, pos)
    IN  CASE tok.k = "str" -> Parsed(Str(tok.s), pos + 1)
          [] tok.k = "lit" -> Parsed(Lit(tok.s), pos + 1)
          [] tok = Punct("[") ->
               IF At(text, pos + 1) = Punct("]") THEN Parsed(List(<<>>), pos + 2)
               ELSE ParseElems(text, pos + 1, <<>>)
          [] tok = Punct("{") ->
               IF At(text, pos + 1) = Punct("}") THEN Parsed(Dict(<<>>, <<>>), pos + 2)
               ELSE ParseItems(text, pos + 1, <<>>, <<>>)
          [] OTHER -> NotParsed

\* line 26: data = json.load(f) reads the whole text as one value, or raises
\* json.JSONDecodeError
JsonLoad(text) ==
    LET v == ParseValue(text, 1)
    IN  IF v.ok /\ v.pos = Len(text) + 1 THEN v ELSE NotParsed

\* key in d, for a dict d
HasKey(d, key) == \E k \in 1..Len(d.keys) : d.keys[k] = key

\* d[key], for a dict d that has the key
Get(d, key) == d.vals[CHOOSE k \in 1..Len(d.keys) : d.keys[k] = key]

\* d.get(key, default)
GetOr(d, key, default) == IF HasKey(d, key) THEN Get(d, key) ELSE default

\* isinstance(v, list) and isinstance(v, dict)
IsList(v) == v.t = "list"

IsDict(v) == v.t = "dict"

\* the second half of the check of line 33 left out (a faulty variant of
\* ValidData)
ValidDataAnyPlaylists(data) ==
    /\ IsDict(data)
    /\ HasKey(data, "playlists")
    /\ HasKey(data, "liked_songs") /\ IsList(Get(data, "liked_songs"))

\* lines 30-38: the basic validation of load_data
ValidData(data) ==
    /\ IsDict(data)
    /\ HasKey(data, "playlists") /\ IsList(Get(data, "playlists"))
    /\ HasKey(data, "liked_songs") /\ IsList(Get(data, "liked_songs"))

\* load_data(filepath) is about to run
LoadCalled(file) == [IoIdle EXCEPT !.op = "load_data", !.pc = "open", !.old = file]

\* line 25 and lines 41-49: open(filepath, 'r') raises FileNotFoundError
\* when the file is absent and may raise another IOError; load_data logs
\* either and returns None
LoadOpen ==
    /\ io.op = "load_data"
    /\ io.pc = "open"
    /\ IF ~disk.exists
       THEN /\ io' = [io EXCEPT !.pc = "done", !.exc = "FileNotFoundError"]
            /\ env' = env
       ELSE \E opened \in Fates(env) :
              /\ io' = IF opened THEN [io EXCEPT !.pc = "read"]
                                 ELSE [io EXCEPT !.pc = "done", !.exc = "IOError"]
              /\ env' = Charged(env, ~opened)
    /\ UNCHANGED <<api, fetch, batch, disk, run, auth, client>>

\* lines 26-40 and 44-46: json.load, then the validation; None is returned
\* for a text that is not JSON and for data that fails the validation
LoadRead ==
    /\ io.op = "load_data"
    /\ io.pc = "read"
    /\ LET v == JsonLoad(disk.text)
       IN  io' = IF ~v.ok THEN [io EXCEPT !.pc = "done", !.exc = "JSONDecodeError"]
                 ELSE IF ~ValidData(v.val) THEN [io EXCEPT !.pc = "done", !.data = v.val]
                 ELSE [io EXCEPT !.pc = "done", !.data = v.val, !.ret = v.val]
    /\ UNCHANGED <<api, fetch, batch, disk, run, env, auth, client>>

\* the account of a run: its number of playlists, the number of tracks of
\* each and the number of liked songs; odd maps the numbers of the items
\* that carry no track uri, in every list of the account, to what they
\* carry instead
NoAccount == [playlists |-> 0, tracks |-> <<>>, liked |-> 0, odd |-> <<>>]

\* how one fetch of a run ended: the status and the number of pages read
NotFetched == [status |-> "none", pages |-> 0]

\* no run is in progress.  The fields are the locals of run_export,
\* run_import and run_erase (main.py); ret is what the run returned ("raised"
\* when an exception left it), listed, fetched_tracks and fetched_liked say
\* how the fetches of the run ended; ui says whether the run is main.py's or
\* the GUI's; log lists the mutating remote calls of the writers that have
\* returned, in call order; answers lists the confirmations asked of the
\* user with the answers given; issued_before_liked is the number of
\* mutating calls issued when the liked songs were fetched; selection is the
\* set of positions the user confirmed in select_playlists; args holds the
\* arguments of SpotifyOperations.erase_data.
RunIdle ==
    [kind |-> "none", pc |-> "idle", selective |-> FALSE, acct |-> NoAccount,
     playlists_raw |-> <<>>, tracks |-> <<>>, i |-> 0, playlist_data |-> <<>>,
     liked_songs |-> <<>>, export_liked |-> FALSE, ret |-> "none",
     listed |-> NotFetched, fetched_tracks |-> <<>>, fetched_liked |-> NotFetched,
     ui |-> "cli", data |-> Lit("null"), to_import |-> <<>>, import_liked |-> FALSE,
     name |-> Lit("null"), public |-> Lit("null"), log |-> <<>>,
     answers |-> <<>>, issued_before_liked |-> 0, selection |-> {}, args |-> <<>>]

(***************************************************************************)
(* Authentication (src/src/spotify_manager.py:23-132).  The module-level   *)
(* marker _last_authenticated_username is shared by every SpotifyManager   *)
(* of the process; the token cache files .cache-<username> are shared by   *)
(* every process.  The GUI runs authenticate on worker threads it starts   *)
(* without waiting for the earlier ones (src/src/gui.py:494, 548, 686,     *)
(* 812), so two calls may interleave at every access to the marker.        *)
(***************************************************************************)
\* the usernames a run may be started for, which are also the accounts the
\* browser may be logged in to when a token is requested
Usernames == {"alice", "bob"}

\* the threads that call authenticate: the main thread or GUI workers
Threads == {1, 2}

\* no cache file at a cache path
NoToken == "no token"

\* cache_path = os.path.join(config.CACHE_DIR, f".cache-{self.username}"):
\* the cache slot a call for username uses
CachePath(username) == username

\* a thread that is not in authenticate.  username and clean_cache are the
\* manager's name and the parameter (after line 56, the local); decision is
\* the value of clean_cache after line 56 of the outermost call ("none"
\* before); seen is the marker value _should_clean_cache compared with the
\* username ("unread" when it made no comparison); removed lists the cache
\* slots the call tried to remove, with the result; user_id is me['id'];
\* arg is the parameter of the outermost call;
\* ret is the value returned; depth counts the retry of line 115; attempts
\* counts the authentication attempts (lines 89-103) of the outermost call.
ThreadIdle ==
    [pc |-> "idle", username |-> None, arg |-> FALSE, clean_cache |-> FALSE,
     decision |-> "none", seen |-> "unread", removed |-> <<>>,
     user_id |-> None, ret |-> "none", depth |-> 0, attempts |-> 0]

\* authenticate(clean_cache) is called on a manager for username
ThreadCalled(username, clean_cache) ==
    [ThreadIdle EXCEPT !.pc = "start", !.username = username,
                       !.arg = clean_cache, !.clean_cache = clean_cache]

\* last is _last_authenticated_username and first its value before the
\* calls of the model; cache maps a username to the account whose token
\* its cache file holds
AuthIdle ==
    [last |-> None, first |-> None,
     cache |-> [u \in Usernames |-> NoToken],
     threads |-> [t \in Threads |-> ThreadIdle]]

Thread(t) == auth.threads[t]

\* line 46, first operand: _last_authenticated_username is not None
MarkerSet(m) == m # None

\* line 46, second operand: _last_authenticated_username != self.username
NeverChanged(m, username) == FALSE

UsernameChanged(m, username) == m # username

\* _should_clean_cache, which reads the marker once for each operand: m1
\* is the value tested against None, m2 the value compared
ShouldCleanCache(m1, m2, username) == MarkerSet(m1) /\ UsernameChanged(m2, username)

\* line 56, clean_cache or self._should_clean_cache(): with the parameter
\* set the marker is not read; otherwise line 46 reads it a first time and
\* returns False when it is None
AuthStart(t) ==
    /\ Thread(t).pc = "start"
    /\ LET th == Thread(t)
           m1 == auth.last
       IN  auth' = [auth EXCEPT !.threads[t] =
               IF th.clean_cache
               THEN [th EXCEPT !.pc = "clean",
                               !.decision = IF th.depth = 0 THEN TRUE ELSE @]
               ELSE IF ~MarkerSet(m1)
               THEN [th EXCEPT !.pc = "clean", !.seen = m1, !.decision = FALSE]
               ELSE [th EXCEPT !.pc = "compare", !.seen = m1]]
    /\ UNCHANGED <<api, fetch, batch, disk, io, run, env, client>>

\* line 46, second operand: the marker is read again and compared
AuthCompare(t) ==
    /\ Thread(t).pc = "compare"
    /\ LET th == Thread(t)
           m2 == auth.last
           clean == ShouldCleanCache(th.seen, m2, th.username)
       IN  auth' = [auth EXCEPT !.threads[t] =
               [th EXCEPT !.pc = "clean", !.seen = m2,
                          !.clean_cache = clean, !.decision = clean]]
    /\ UNCHANGED <<api, fetch, batch, disk, io, run, env, client>>

\* lines 58-68: with clean_cache set, the cache file at cache_path is
\* removed if it exists; a failure of os.remove is logged and ignored
AuthClean(t) ==
    /\ Thread(t).pc = "clean"
    /\ LET th == Thread(t)
           cache_path == CachePath(th.username)
       IN  IF th.clean_cache /\ auth.cache[cache_path] # NoToken
           THEN \E ok \in BOOLEAN :
                  auth' = [auth EXCEPT
                      !.cache[cache_path] = IF ok THEN NoToken ELSE @,
                      !.threads[t] = [th EXCEPT
                          !.pc = "connect",
                          !.removed = Append(@, [path |-> cache_path, ok |-> ok])]]
           ELSE auth' = [auth EXCEPT !.threads[t] = [th EXCEPT !.pc = "connect"]]
    /\ UNCHANGED <<api, fetch, batch, disk, io, run, env, client>>

\* lines 89-103: SpotifyOAuth with the cache path, then self.sp.me().  A
\* cached token is used as it is; without one the browser is opened and the
\* token of the account logged in there is stored in the cache file.  Any
\* exception makes authenticate return False (lines 123-132).
AuthConnect(t) ==
    /\ Thread(t).pc = "connect"
    /\ LET th == Thread(t)
           slot == CachePath(th.username)
       IN  \E account \in (IF auth.cache[slot] # NoToken
                           THEN {auth.cache[slot]} ELSE Usernames),
              granted \in BOOLEAN, me \in BOOLEAN :
             auth' = [auth EXCEPT
                 !.cache[slot] = IF granted THEN account ELSE @,
                 !.threads[t] =
                     IF granted /\ me
                     THEN [th EXCEPT !.pc = "verify", !.user_id = account,
                                     !.attempts = @ + 1]
                     ELSE [th EXCEPT !.pc = "done", !.ret = FALSE,
                                     !.attempts = @ + 1]]
    /\ UNCHANGED <<api, fetch, batch, disk, io, run, env, client>>

\* the retry on every mismatch (a faulty variant of RetryNeeded)
RetryOnAnyMismatch(user_id, username, clean_cache) == user_id # username

\* line 106: if self.user_id != self.username and not clean_cache
RetryNeeded(user_id, username, clean_cache) == user_id # username /\ ~clean_cache

\* lines 106-121: on a mismatch without cleaning the marker is set to the
\* account found and authenticate is called again with clean_cache=True;
\* otherwise the marker is set to the username and True is returned
AuthVerify(t) ==
    /\ Thread(t).pc = "verify"
    /\ LET th == Thread(t)
       IN  IF RetryNeeded(th.user_id, th.username, th.clean_cache)
           THEN auth' = [auth EXCEPT
                    !.last = th.user_id,
                    !.threads[t] = [th EXCEPT !.pc = "start", !.clean_cache = TRUE,
                                              !.depth = @ + 1]]
           ELSE auth' = [auth EXCEPT
                    !.last = th.username,
                    !.threads[t] = [th EXCEPT !.pc = "done", !.ret = TRUE]]
    /\ UNCHANGED <<api, fetch, batch, disk, io, run, env, client>>

(***************************************************************************)
(* SpotifyClient (src/src/core/spotify_client.py, and the older copy       *)
(* src/spotify_client.py, which has the same method bodies without the     *)
(* decorator).  One call of a method: in the core variant the wrapper of   *)
(* retry_on_rate_limit (lines 19-33) invokes the method body, which makes  *)
(* its remote calls inside try ... except Exception.  pc is "called" (the  *)
(* body is about to be invoked), "body" or "loop" (about to make the       *)
(* remote call, or the call for the chunk at i), "returned" (the body has  *)
(* ended with result, or with the exception escaped) or "done"; retries    *)
(* and sleeps are the wrapper's counter and the arguments of time.sleep;   *)
(* hist lists the outcomes of the remote calls and calls the chunks they   *)
(* were made with.                                                        *)
(***************************************************************************)
\* retry_on_rate_limit(max_retries=3, initial_backoff=1), line 15
max_retries == 3
initial_backoff == 1

\* the methods that make one remote call, and those that make one per chunk
SingleMethods == {"create_playlist", "delete_playlist"}

ChunkMethods == {"add_tracks_to_playlist", "like_songs", "unlike_songs"}

\* lines 244 and 320, 392: range(0, len(track_uris), 100) and
\* range(0, len(track_ids), 50)
ChunkSize(method) == IF method = "add_tracks_to_playlist" THEN 100 ELSE 50

\* how a remote call ends: it returns, or raises a SpotifyException whose
\* text says "rate limit", another SpotifyException, or another Exception
ClientOutcomes == {"return", "rate limit", "SpotifyException", "Exception"}

\* what a method returns when its remote calls returned, and what its
\* except clause and its guard return
Success(method) == IF method = "create_playlist" THEN "playlist" ELSE "True"

Failure(method) == IF method = "create_playlist" THEN "None" ELSE "False"

ClientIdle ==
    [method |-> "none", variant |-> "core", sp |-> FALSE, pc |-> "idle",
     retries |-> 0, sleeps |-> <<>>, hist |-> <<>>, track_uris |-> <<>>,
     i |-> 0, calls |-> <<>>, result |-> "none", escaped |-> "none",
     ret |-> "none", raised |-> FALSE]

\* a method of the client of variant is about to be called
ClientCalled(variant, method, sp, track_uris) ==
    [ClientIdle EXCEPT !.method = method, !.variant = variant, !.sp = sp,
                       !.pc = "called", !.track_uris = track_uris]

\* "except Exception as e" in the method bodies (lines 230, 248, 324, 358,
\* 396): every exception a remote call raises is an Exception
BodyCatches(o) == o \in {"rate limit", "SpotifyException", "Exception"}

\* the body after a remote call that ended as o: the except clause returns
\* the failure value; an exception it did not catch would leave the body
AfterRemote(c, o) ==
    IF BodyCatches(o)
    THEN [c EXCEPT !.pc = "returned", !.result = Failure(c.method)]
    ELSE [c EXCEPT !.pc = "returned", !.escaped = o]

\* lines 20-25 and the guard of the body: retries and backoff are set on
\* the first invocation; the body returns at once when self.sp is not set
\* and, in a chunk method, runs no iteration on an empty list
ClientEnter ==
    /\ client.pc = "called"
    /\ client' =
          IF ~client.sp
          THEN [client EXCEPT !.pc = "returned", !.result = Failure(client.method)]
          ELSE IF client.method \in SingleMethods
          THEN [client EXCEPT !.pc = "body"]
          ELSE IF client.track_uris = <<>>
          THEN [client EXCEPT !.pc = "returned", !.result = Success(client.method)]
          ELSE [client EXCEPT !.pc = "loop", !.i = 0]
    /\ UNCHANGED <<api, fetch, batch, disk, io, run, env, auth>>

\* lines 221-232 and 354-360: the remote call of create_playlist or
\* delete_playlist
ClientRemote ==
    /\ client.pc = "body"
    /\ \E o \in ClientOutcomes :
          LET c == [client EXCEPT !.hist = Append(@, o)]
          IN  client' = IF o = "return"
                        THEN [c EXCEPT !.pc = "returned", !.result = Success(c.method)]
                        ELSE AfterRemote(c, o)
    /\ UNCHANGED <<api, fetch, batch, disk, io, run, env, auth>>

\* lines 241-250, 317-326 and 389-398: one iteration of the loop over the
\* chunks, which is inside the try block
ClientChunk ==
    /\ client.pc = "loop"
    /\ \E o \in ClientOutcomes :
          LET size == ChunkSize(client.method)
              c == [client EXCEPT !.hist = Append(@, o),
                                  !.calls = Append(@, Slice(client.track_uris, client.i, size))]
          IN  client' =
                 IF o # "return" THEN AfterRemote(c, o)
                 ELSE IF c.i + size < Len(c.track_uris)
                 THEN [c EXCEPT !.i = @ + size]
                 ELSE [c EXCEPT !.i = @ + size, !.pc = "returned",
                                !.result = Success(c.method)]
    /\ UNCHANGED <<api, fetch, batch, disk, io, run, env, auth>>

\* lines 23-33: the wrapper returns what the body returned; a
\* SpotifyException that left the body with "rate limit" in its text is
\* retried while retries < max_retries, after a sleep of
\* backoff * 2 ** (retries - 1), and any other exception is raised again.
\* The older copy has no wrapper.
ClientReturn ==
    /\ client.pc = "returned"
    /\ client' =
          IF client.escaped = "none"
          THEN [client EXCEPT !.pc = "done", !.ret = client.result]
          ELSE IF /\ client.variant = "core"
                  /\ client.escaped = "rate limit"
                  /\ client.retries < max_retries
          THEN [client EXCEPT !.pc = "called", !.escaped = "none",
                              !.retries = @ + 1,
                              !.sleeps = Append(@, initial_backoff * Pow2(client.retries))]
          ELSE [client EXCEPT !.pc = "done", !.raised = TRUE]
    /\ UNCHANGED <<api, fetch, batch, disk, io, run, env, auth>>

\* the track lists a chunk method is called with
ClientLists == {[k \in 1..n |-> k] : n \in 0..MaxTracks}

InitClient ==
    /\ api = ApiIdle
    /\ fetch = FetchIdle
    /\ batch = BatchIdle
    /\ disk = NoFile
    /\ io = IoIdle
    /\ run = RunIdle
    /\ env = EnvFree
    /\ auth = AuthIdle
    /\ \E variant \in {"core", "root"}, sp \in BOOLEAN :
          \/ \E method \in SingleMethods :
                client = ClientCalled(variant, method, sp, <<>>)
          \/ \E method \in ChunkMethods, track_uris \in ClientLists :
                client = ClientCalled(variant, method, sp, track_uris)

NextClient == ClientEnter \/ ClientRemote \/ ClientChunk \/ ClientReturn

SpecClient == InitClient /\ [][NextClient]_vars

\* a call of the wrapper is about to start
InitCall ==
    /\ \E sp \in BOOLEAN : api = ApiStart(sp)
    /\ fetch = FetchIdle
    /\ batch = BatchIdle
    /\ disk = NoFile
    /\ io = IoIdle
    /\ run = RunIdle
    /\ env = EnvFree
    /\ auth = AuthIdle
    /\ client = ClientIdle

Attempt ==
    /\ api.pc = "call"
    /\ \E o \in Outcomes : api' = ApiAttempt(api, o)
    /\ UNCHANGED <<fetch, batch, disk, io, run, env, auth, client>>

NextCall == Attempt

SpecCall == InitCall /\ [][NextCall]_vars

(***************************************************************************)
(* Properties of the wrapper (SpecCall).                                   *)
(***************************************************************************)
IsRateLimit(o) == o.kind = "SpotifyException" /\ o.http_status = RATE_LIMIT_STATUS

\* the duration the server suggests in outcome o, if it suggests one
Suggests(o) == o.hdr = "int"

\* the wrapped call failed with a rate-limit signal twice, then returned
TwiceLimitedThenReturned ==
    /\ api.pc = "done"
    /\ Len(api.hist) = 3
    /\ IsRateLimit(api.hist[1])
    /\ IsRateLimit(api.hist[2])
    /\ api.hist[3].kind = "return"

AlwaysRateLimited ==
    /\ api.hist # <<>>
    /\ \A i \in 1..Len(api.hist) : IsRateLimit(api.hist[i]) /\ api.hist[i].hdr # "bad"

\* C4 as stated: a call that is rate-limited on every attempt is given up,
\* None returned and nothing raised, after exactly MAX_RETRIES invocations.
C4_GivesUpAfterMaxRetriesCalls ==
    (api.pc = "done" /\ AlwaysRateLimited) =>
        /\ ~api.raised
        /\ api.ret = None
        /\ Len(api.hist) = MAX_RETRIES

\* C4 amended: such a call is given up, None returned and nothing raised,
\* after exactly MAX_RETRIES + 1 invocations, that is after MAX_RETRIES
\* retries, each preceded by one sleep.
C4_GivesUpAfterMaxRetriesRetries ==
    (api.pc = "done" /\ AlwaysRateLimited) =>
        /\ ~api.raised
        /\ api.ret = None
        /\ Len(api.hist) = MAX_RETRIES + 1
        /\ Len(api.sleeps) = MAX_RETRIES

C4_Witness ==
    /\ api.pc = "done"
    /\ AlwaysRateLimited
    /\ Len(api.hist) = MAX_RETRIES + 1
    /\ api.ret = None

\* C5: on consecutive rate-limit responses the wrapper sleeps for the
\* server-suggested duration when one is present and otherwise for a backoff
\* that starts at INITIAL_RETRY_DELAY and doubles with each attempt (1, 2, 4),
\* and it retries at most MAX_RETRIES times.
C5_RateLimitBackoffDoubles ==
    \A i \in 1..Len(api.sleeps) :
        (\A j \in 1..i : IsRateLimit(api.hist[j])) =>
            /\ i <= MAX_RETRIES
            /\ Suggests(api.hist[i]) => api.sleeps[i] = api.hist[i].hdrval
            /\ (\A j \in 1..i : ~Suggests(api.hist[j])) =>
                   api.sleeps[i] = INITIAL_RETRY_DELAY * Pow2(i - 1)

\* C6: the wrapper's result tells success from failure: when the wrapped
\* call returned, the wrapper returns its value unchanged, and that value is
\* not the failure value.
C6_SuccessDistinguishable ==
    (api.pc = "done" /\ ApiSucceeded(api)) =>
        /\ ~api.raised
        /\ api.ret = Last(api.hist).val
        /\ api.ret # None

\* C7: no exception leaves the wrapper: when the wrapped call did not
\* return, the wrapper returns None.
C7_NeverRaises ==
    /\ ~api.raised
    /\ (api.pc = "done" /\ ~ApiSucceeded(api)) => api.ret = None

\* every invocation so far timed out
AlwaysTimedOut ==
    /\ api.hist # <<>>
    /\ \A i \in 1..Len(api.hist) : api.hist[i].kind = "Timeout"

\* C8: timeouts are retried with delays doubling from INITIAL_RETRY_DELAY;
\* timeouts and rate-limit responses count against one retry counter, so
\* the wrapped call is invoked at most MAX_RETRIES + 1 times whatever the
\* interleaving, and a call still failing then yields None.
C8_TimeoutBackoffSharedBudget ==
    /\ Len(api.hist) <= MAX_RETRIES + 1
    /\ api.retries = Len(api.sleeps)
    /\ \A i \in 1..Len(api.sleeps) :
           (\A j \in 1..i : api.hist[j].kind = "Timeout") =>
               api.sleeps[i] = INITIAL_RETRY_DELAY * Pow2(i - 1)
    /\ (api.pc = "done" /\ AlwaysTimedOut) =>
           /\ Len(api.hist) = MAX_RETRIES + 1
           /\ api.ret = None
           /\ ~api.raised

C8_Witness ==
    /\ api.pc = "done"
    /\ AlwaysTimedOut
    /\ api.sleeps = <<1, 2, 4, 8>>
    /\ api.ret = None

\* C9: a 5xx response is retried like a rate-limit or timeout failure; the
\* wrapper gives the call up on a 5xx only once the retry budget is spent.
C9_ServerErrorRetried ==
    (/\ api.pc = "done"
     /\ api.hist # <<>>
     /\ Last(api.hist).kind = "SpotifyException"
     /\ Last(api.hist).http_status >= 500) =>
        api.retries >= MAX_RETRIES

\* C37: every backoff sleep of the wrapper is followed by another
\* invocation of the wrapped call: when the wrapper has ended, it has slept
\* fewer times than it has invoked the call.
C37_NoSleepAfterFinalAttempt ==
    api.pc = "done" => (api.sleeps = <<>> \/ Len(api.sleeps) < Len(api.hist))

(***************************************************************************)
(* The paginated fetcher, called twice.                                    *)
(***************************************************************************)
InitFetch ==
    /\ disk = NoFile
    /\ io = IoIdle
    /\ run = RunIdle
    /\ env = EnvFree
    /\ auth = AuthIdle
    /\ client = ClientIdle
    /\ api = ApiIdle
    /\ \E sp \in BOOLEAN, source \in Sources : fetch = FetchCalled(sp, source, NoReturn)
    /\ batch = BatchIdle

NextFetch == FetchFirst \/ FetchLoop \/ FetchReturn \/ FetchAgain

SpecFetch == InitFetch /\ [][NextFetch]_vars

(***************************************************************************)
(* Properties of the paginated fetcher (SpecFetch).                        *)
(***************************************************************************)
\* C1: a fetch cut short by a failed page fetch tells its caller so: what it
\* returns differs from what a complete fetch of the same items returns.
C1_TruncationDistinguishable ==
    (/\ fetch.pc = "done"
     /\ fetch.prev.returned
     /\ {fetch.status, fetch.prev.status} = {"truncated", "complete"}) =>
        fetch.items # fetch.prev.items

\* C2: when every page fetch succeeds the fetcher returns the concatenation
\* of the pages' items in order, having called the wrapper once per page;
\* it never fetches past the page that carries no next cursor, and what it
\* has accumulated is always the items of the pages processed so far.
C2_PaginationComplete ==
    /\ fetch.calls <= Len(fetch.source)
    /\ fetch.page_count <= Len(fetch.source)
    /\ fetch.items = AllItems(fetch.source, fetch.page_count)
    /\ (fetch.pc = "done" /\ fetch.status = "complete") =>
          /\ fetch.items = AllItems(fetch.source, Len(fetch.source))
          /\ fetch.calls = Len(fetch.source)
          /\ fetch.page_count = Len(fetch.source)

C2_Witness ==
    /\ fetch.pc = "done"
    /\ fetch.status = "complete"
    /\ Len(fetch.source) = MaxPages
    /\ fetch.calls = MaxPages
    /\ Len(fetch.items) >= 3
    /\ \E i \in 1..Len(fetch.source) : fetch.source[i].items = <<>>

(***************************************************************************)
(* The writers: one call of one writer on a list of up to MaxTracks tracks.*)
(***************************************************************************)
InitBatch ==
    /\ api = ApiIdle
    /\ fetch = FetchIdle
    /\ disk = NoFile
    /\ io = IoIdle
    /\ run = RunIdle
    /\ env = EnvFree
    /\ auth = AuthIdle
    /\ client = ClientIdle
    /\ \E op \in Ops, sp \in BOOLEAN, user_id \in BOOLEAN, n \in 0..MaxTracks :
          /\ user_id => sp
          /\ op = "unfollow_playlist" => n = 0
          /\ \E images \in BOOLEAN :
                /\ images => op = "create_playlist_and_add_tracks"
                /\ batch = [BatchCalled(op, sp, user_id, n) EXCEPT !.images = images]

NextBatch ==
    LibraryStart \/ LibraryBatch \/ CreatePlaylist \/ AddItemsBatch \/ UnfollowPlaylist

SpecBatch == InitBatch /\ [][NextBatch]_vars

(***************************************************************************)
(* Properties of the writers (SpecBatch).                                  *)
(***************************************************************************)
RECURSIVE Concat(_, _)
Concat(batches, k) == IF k = 0 THEN <<>> ELSE Concat(batches, k - 1) \o batches[k]

Ceil(n, d) == (n + d - 1) \div d

\* the batching loop of the writer ran to its end
LoopCompleted ==
    /\ batch.op \in LibraryOps \cup {"create_playlist_and_add_tracks"}
    /\ batch.pc = "done"
    /\ batch.sp
    /\ batch.op = "create_playlist_and_add_tracks" => batch.created
    /\ ~batch.caught

\* C10: the chunks a batching writer passes to the wrapper are non-empty and
\* no larger than the writer's maximum, every chunk but the last is exactly
\* the maximum, and in call order they make up the input list from its
\* start; a loop that runs to its end has issued ceil(n / maximum) calls
\* that together equal the input list.
C10_Chunking ==
    LET n == Len(batch.track_uris)
        max == MaxBatch(batch.op)
        sent == Concat(batch.calls, Len(batch.calls))
    IN  /\ \A j \in 1..Len(batch.calls) :
              /\ batch.calls[j] # <<>>
              /\ Len(batch.calls[j]) <= max
              /\ j < Len(batch.calls) => Len(batch.calls[j]) = max
        /\ Len(sent) <= n
        /\ sent = SubSeq(batch.track_uris, 1, Len(sent))
        /\ LoopCompleted =>
              /\ Len(batch.calls) = Ceil(n, max)
              /\ sent = batch.track_uris

C10_Witness ==
    /\ LoopCompleted
    /\ batch.op = "create_playlist_and_add_tracks"
    /\ Len(batch.track_uris) = 250
    /\ [j \in 1..Len(batch.calls) |-> Len(batch.calls[j])] = <<100, 100, 50>>

\* a batching writer entered its loop and the operation ended
LoopEnded ==
    /\ batch.op \in LibraryOps \cup {"create_playlist_and_add_tracks"}
    /\ batch.pc \in {"done", "raised"}
    /\ batch.calls # <<>>

\* C11 as stated: in the three batching writers a chunk whose wrapped call
\* fails is skipped and every later chunk is still attempted, so an operation
\* that entered its loop has issued ceil(n / maximum) chunk calls when it
\* ends, whichever chunks failed.
C11_LaterChunksAttempted ==
    LoopEnded =>
        Len(batch.calls) = Ceil(Len(batch.track_uris), MaxBatch(batch.op))

\* C12: when the create-playlist call of create_playlist_and_add_tracks
\* fails (the wrapper raises or returns None, or the result carries no id),
\* no add-items call is issued for that playlist.
C12_NoAddAfterFailedCreate ==
    (/\ batch.op = "create_playlist_and_add_tracks"
     /\ batch.new_playlist \in {"raised", "None", "no_id"}) =>
        /\ batch.calls = <<>>
        /\ ~batch.created

C12_Witness ==
    /\ batch.op = "create_playlist_and_add_tracks"
    /\ batch.pc = "done"
    /\ batch.new_playlist = "no_id"
    /\ Len(batch.track_uris) > MAX_TRACKS_PER_ADD
    /\ batch.calls = <<>>

(***************************************************************************)
(* Snapshots: the export content run_export builds (main.py:172-198) and   *)
(* the files run_import reads.                                             *)
(***************************************************************************)
\* the k-th identifier of a kind: Uri("t", 2) = "t2"
Uri(kind, k) == kind \o ToString(k)

\* main.py:172-178: the record run_export appends for one playlist
PlaylistRecord(id, name, public, description, tracks) ==
    Dict(<<"id", "name", "public", "description", "tracks">>,
         <<Str(id), Str(name), Lit(IF public THEN "true" ELSE "false"),
           Str(description), List(tracks)>>)

\* main.py:198: export_content = {'playlists': ..., 'liked_songs': ...}
ExportContent(playlist_data, liked_songs) ==
    Dict(<<"playlists", "liked_songs">>, <<List(playlist_data), List(liked_songs)>>)

\* the track lists of up to MaxRunTracks tracks of owner ("p1", "liked", ...)
TrackList(owner, n) == [k \in 1..n |-> Str(Uri(owner \o "t", k))]

\* playlist number k of a snapshot, with n tracks
SnapshotPlaylist(k, n) ==
    PlaylistRecord(Uri("p", k), Uri("name", k), k % 2 = 1, "", TrackList(Uri("p", k), n))

\* the snapshot of np playlists, playlist k with nt[k] tracks, and nl liked
\* songs
SnapshotOf(np, nt, nl) ==
    ExportContent([k \in 1..np |-> SnapshotPlaylist(k, nt[k])], TrackList("liked", nl))

\* the well-formed snapshots of up to MaxPlaylists playlists
Snapshots ==
    UNION {{SnapshotOf(np, nt, nl) : nt \in [1..np -> 0..MaxRunTracks],
                                     nl \in 0..MaxRunTracks} : np \in 0..MaxPlaylists}

(***************************************************************************)
(* save_data alone: one call on a snapshot, or on a dict holding a value   *)
(* json cannot encode, the file being absent or holding an earlier         *)
(* snapshot.                                                               *)
(***************************************************************************)
SaveInputs ==
    Snapshots \cup
    {ExportContent(<<SnapshotPlaylist(1, n)>>, <<Str("likedt1"), Unserializable>>) :
        n \in 0..MaxRunTracks}

OldFiles == {NoFile} \cup {FileOf(v) : v \in {w \in Snapshots : Len(w.vals[1].elems) <= 1}}

InitSave ==
    /\ api = ApiIdle
    /\ fetch = FetchIdle
    /\ batch = BatchIdle
    /\ run = RunIdle
    /\ env = EnvFree
    /\ auth = AuthIdle
    /\ client = ClientIdle
    /\ \E data \in SaveInputs, old \in OldFiles :
          /\ disk = old
          /\ io = SaveCalled(data, old)

NextSave == SaveOpen \/ SaveWrite \/ SaveClose

SpecSave == InitSave /\ [][NextSave]_vars

\* save_data has returned or raised
SaveEnded == io.op = "save_data" /\ io.pc \in {"done", "raised"}

\* C13 as stated: after any save attempt, successful or failed, the file
\* holds either its complete previous content or the complete new content.
C13_SaveAtomic ==
    SaveEnded => (disk = io.old \/ disk = FileOf(io.data))

(***************************************************************************)
(* run_export (main.py:134-207) on an account of up to MaxPlaylists        *)
(* playlists.  The manager is authenticated (main.py:427-429 exits          *)
(* otherwise).  Each call of the manager runs the fetcher's steps; a        *)
(* playlist is known by its number in the account's listing, track k of    *)
(* playlist p has the uri Uri("p" p "t", k).                                *)
(***************************************************************************)
\* the pages an endpoint serves a listing of n items in, RunPageLimit items
\* a page
RunSource(n) ==
    Pages([j \in 1..(IF n = 0 THEN 1 ELSE Ceil(n, RunPageLimit)) |->
              Min(RunPageLimit, n - (j - 1) * RunPageLimit)])

Accounts ==
    UNION {{[playlists |-> np, tracks |-> nt, liked |-> nl, odd |-> <<>>] :
               nt \in [1..np -> 0..MaxRunTracks], nl \in 0..MaxRunTracks} :
           np \in 0..MaxPlaylists}

\* what an item without a track uri may be: its track is null (a track
\* removed from the catalogue), the track key is absent, the track has no
\* uri key, or its uri is null
OddKinds == {"null track", "no track", "no uri", "null uri"}

\* item number k of a list of owner, as the service returns it: an object
\* with the track under "track", the track an object with its uri
Item(owner, k, odd) ==
    IF k \notin DOMAIN odd
    THEN Dict(<<"track">>, <<Dict(<<"uri">>, <<Str(Uri(owner \o "t", k))>>)>>)
    ELSE CASE odd[k] = "null track" -> Dict(<<"track">>, <<Lit("null")>>)
           [] odd[k] = "no track" -> Dict(<<"added_at">>, <<Str("2020")>>)
           [] odd[k] = "no uri" -> Dict(<<"track">>, <<Dict(<<"id">>, <<Str("local")>>)>>)
           [] OTHER -> Dict(<<"track">>, <<Dict(<<"uri">>, <<Lit("null")>>)>>)

\* Python's truth value of a JSON value: None, False, the empty string, the
\* empty list and the empty dict are false
Truthy(v) ==
    CASE v.t = "lit" -> v.s = "true"
      [] v.t = "str" -> v.s # ""
      [] v.t = "list" -> v.elems # <<>>
      [] v.t = "dict" -> v.keys # <<>>
      [] OTHER -> TRUE

\* no item kept (a faulty variant of HasUri)
NeverPlayable(item) == FALSE

\* spotify_manager.py:236 and 245, the condition of the comprehension:
\* item.get('track') and item['track'].get('uri')
HasUri(item) ==
    /\ Truthy(GetOr(item, "track", Lit("null")))
    /\ Truthy(GetOr(Get(item, "track"), "uri", Lit("null")))

\* spotify_manager.py:236 and 245: the uris of the fetched items of owner,
\* [item['track']['uri'] for item in tracks if ...]
TrackUris(owner, items) ==
    LET fetched == [k \in 1..Len(items) |-> Item(owner, items[k], run.acct.odd)]
        kept == SelectSeq(fetched, HasUri)
    IN  [k \in 1..Len(kept) |-> Get(Get(kept[k], "track"), "uri")]

\* main.py:172-178: the record exported for playlist number p
ExportedPlaylist(p, tracks) ==
    PlaylistRecord(Uri("p", p), Uri("name", p), p % 2 = 1, "", tracks)

\* how the fetch that just ended went
FetchEnd ==
    [status |-> IF fetch.pc = "raised" THEN "raised" ELSE fetch.status,
     pages |-> fetch.page_count]

\* a call of the manager's fetcher has ended
Fetched == fetch.pc \in {"done", "raised"}

\* an exception leaves the run (main.py:440-442 logs it and exits)
RunRaised(r) == [r EXCEPT !.pc = "done", !.ret = "raised"]

\* every element kept, whatever the selection (a faulty variant of SubList)
SubListAll(seq, sel, k) == seq

\* the sub-list of seq at the positions in sel, in list order
RECURSIVE SubList(_, _, _)
SubList(seq, sel, k) ==
    IF k > Len(seq) THEN <<>>
    ELSE (IF k \in sel THEN <<seq[k]>> ELSE <<>>) \o SubList(seq, sel, k + 1)

\* a question asked of the user, with the answer given
Answer(question, yes) == [question |-> question, yes |-> yes]

\* line 139: playlists_raw = manager.get_all_playlists()
ExportStart ==
    /\ run.kind = "export"
    /\ run.pc = "start"
    /\ fetch' = FetchCalled(TRUE, RunSource(run.acct.playlists), NoReturn)
    /\ run' = [run EXCEPT !.pc = "listing"]
    /\ UNCHANGED <<api, batch, disk, io, env, auth, client>>

\* lines 139-145, 160: get_all_playlists has returned a list (it never
\* returns None, so line 140 never aborts)
ExportListed ==
    /\ run.kind = "export"
    /\ run.pc = "listing"
    /\ Fetched
    /\ run' = IF fetch.pc = "raised"
              THEN RunRaised([run EXCEPT !.listed = FetchEnd])
              ELSE [run EXCEPT !.listed = FetchEnd,
                               !.playlists_raw = fetch.items,
                               !.i = 1,
                               !.pc = IF run.selective THEN "prefetch" ELSE "playlists"]
    /\ fetch' = FetchIdle
    /\ UNCHANGED <<api, batch, disk, io, env, auth, client>>

\* lines 148-150 and 165-166: tracks = manager.get_playlist_tracks(p['id'])
\* in the selection loop or in the processing loop
ExportFetchTracks ==
    /\ run.kind = "export"
    /\ \/ run.pc = "prefetch"
       \/ run.pc = "playlists" /\ ~run.selective
    /\ run.i <= Len(run.playlists_raw)
    /\ fetch' = FetchCalled(TRUE, RunSource(run.acct.tracks[run.playlists_raw[run.i]]),
                            NoReturn)
    /\ run' = [run EXCEPT !.pc = IF @ = "prefetch" THEN "prefetching" ELSE "fetching"]
    /\ UNCHANGED <<api, batch, disk, io, env, auth, client>>

\* lines 150-151: p['tracks'] = tracks if tracks is not None else []
ExportPrefetched ==
    /\ run.kind = "export"
    /\ run.pc = "prefetching"
    /\ Fetched
    /\ run' = IF fetch.pc = "raised"
              THEN RunRaised([run EXCEPT !.fetched_tracks = Append(@, FetchEnd)])
              ELSE [run EXCEPT
                      !.fetched_tracks = Append(@, FetchEnd),
                      !.tracks = Append(@, TrackUris(Uri("p", run.playlists_raw[run.i]),
                                                     fetch.items)),
                      !.i = @ + 1,
                      !.pc = "prefetch"]
    /\ fetch' = FetchIdle
    /\ UNCHANGED <<api, batch, disk, io, env, auth, client>>

\* lines 153-156: playlists_raw = select_playlists(playlists_raw), which
\* returns the playlists at the confirmed positions in list order, none
\* after 'q', and the list itself when it is empty
ExportSelect ==
    /\ run.kind = "export"
    /\ run.pc = "prefetch"
    /\ run.i > Len(run.playlists_raw)
    /\ \E sel \in SUBSET (1..Len(run.playlists_raw)) :
          run' = IF sel = {}
                 THEN [run EXCEPT !.playlists_raw = <<>>, !.tracks = <<>>,
                                  !.pc = "done", !.ret = "False"]
                 ELSE [run EXCEPT
                         !.playlists_raw = SubList(@, sel, 1),
                         !.tracks = SubList(@, sel, 1),
                         !.fetched_tracks = SubList(@, sel, 1),
                         !.i = 1,
                         !.pc = "playlists"]
    /\ UNCHANGED <<api, fetch, batch, disk, io, env, auth, client>>

\* lines 167-179 of a non-selective run: tracks is never None, the record
\* is appended with the tracks the fetcher returned
ExportPlaylistFetched ==
    /\ run.kind = "export"
    /\ run.pc = "fetching"
    /\ Fetched
    /\ run' = IF fetch.pc = "raised"
              THEN RunRaised([run EXCEPT !.fetched_tracks = Append(@, FetchEnd)])
              ELSE LET p == run.playlists_raw[run.i]
                   IN  [run EXCEPT
                          !.fetched_tracks = Append(@, FetchEnd),
                          !.playlist_data =
                              Append(@, ExportedPlaylist(p, TrackUris(Uri("p", p),
                                                                      fetch.items))),
                          !.i = @ + 1,
                          !.pc = "playlists"]
    /\ fetch' = FetchIdle
    /\ UNCHANGED <<api, batch, disk, io, env, auth, client>>

\* lines 169-179 of a selective run: tracks = p['tracks']
ExportPlaylistKept ==
    /\ run.kind = "export"
    /\ run.pc = "playlists"
    /\ run.selective
    /\ run.i <= Len(run.playlists_raw)
    /\ run' = [run EXCEPT
                 !.playlist_data =
                     Append(@, ExportedPlaylist(run.playlists_raw[run.i], run.tracks[run.i])),
                 !.i = @ + 1]
    /\ UNCHANGED <<api, fetch, batch, disk, io, env, auth, client>>

\* lines 181-195: export_liked is True, or the answer to "Export liked
\* songs? (y/n)" in a selective run; liked_songs = manager.get_liked_songs()
ExportLiked ==
    /\ run.kind = "export"
    /\ run.pc = "playlists"
    /\ run.i > Len(run.playlists_raw)
    /\ \E answer \in IF run.selective THEN BOOLEAN ELSE {TRUE} :
          /\ run' = [run EXCEPT !.export_liked = answer,
                                !.answers = IF run.selective
                                            THEN Append(@, Answer("liked", answer))
                                            ELSE @,
                                !.pc = IF answer THEN "liked" ELSE "save"]
          /\ fetch' = IF answer
                      THEN FetchCalled(TRUE, RunSource(run.acct.liked), NoReturn)
                      ELSE fetch
    /\ UNCHANGED <<api, batch, disk, io, env, auth, client>>

\* lines 189-193: get_liked_songs has returned a list (never None)
ExportLikedFetched ==
    /\ run.kind = "export"
    /\ run.pc = "liked"
    /\ Fetched
    /\ run' = IF fetch.pc = "raised"
              THEN RunRaised([run EXCEPT !.fetched_liked = FetchEnd])
              ELSE [run EXCEPT !.fetched_liked = FetchEnd,
                               !.liked_songs = TrackUris("liked", fetch.items),
                               !.pc = "save"]
    /\ fetch' = FetchIdle
    /\ UNCHANGED <<api, batch, disk, io, env, auth, client>>

\* lines 198-201: save_data(export_content, data_file)
ExportSave ==
    /\ run.kind = "export"
    /\ run.pc = "save"
    /\ io' = SaveCalled(ExportContent(run.playlist_data, run.liked_songs), disk)
    /\ run' = [run EXCEPT !.pc = "saving"]
    /\ UNCHANGED <<api, fetch, batch, disk, env, auth, client>>

\* lines 201-207: return True, or False when save_data raised
ExportSaved ==
    /\ run.kind = "export"
    /\ run.pc = "saving"
    /\ io.pc \in {"done", "raised"}
    /\ run' = [run EXCEPT !.pc = "done",
                          !.ret = IF io.pc = "done" THEN "True" ELSE "False"]
    /\ UNCHANGED <<api, fetch, batch, disk, io, env, auth, client>>

InitExport ==
    /\ api = ApiIdle
    /\ fetch = FetchIdle
    /\ batch = BatchIdle
    /\ io = IoIdle
    /\ env = EnvLimited
    /\ auth = AuthIdle
    /\ client = ClientIdle
    /\ disk \in {NoFile, FileOf(SnapshotOf(0, <<>>, 1))}
    /\ \E selective \in BOOLEAN, acct \in Accounts :
          run = [RunIdle EXCEPT !.kind = "export", !.pc = "start",
                                !.selective = selective, !.acct = acct]

NextExport ==
    \/ ExportStart \/ ExportListed \/ ExportFetchTracks \/ ExportPrefetched
    \/ ExportSelect \/ ExportPlaylistFetched \/ ExportPlaylistKept
    \/ ExportLiked \/ ExportLikedFetched \/ ExportSave \/ ExportSaved
    \/ FetchFirst \/ FetchLoop \/ FetchReturn
    \/ SaveOpen \/ SaveWrite \/ SaveClose

SpecExport == InitExport /\ [][NextExport]_vars

(***************************************************************************)
(* Properties of run_export (SpecExport).                                  *)
(***************************************************************************)
\* the export run has ended
ExportEnded == run.kind = "export" /\ run.pc = "done"

\* C14 as stated: when the fetch of the playlist listing terminally fails
\* (the wrapper gives up on one of its pages), run_export ends aborted: it
\* returns False, or an exception leaves it, and no snapshot file is written.
C14_ListingFailureAborts ==
    (ExportEnded /\ run.listed.status \in {"truncated", "raised"}) =>
        /\ run.ret \in {"False", "raised"}
        /\ io.op = "none"

\* C15 as stated: when the track fetch of one playlist fails after its first
\* page, that playlist is exported with an empty track list and the
\* remaining playlists are still fetched and exported.
C15_PartialTracksExportedEmpty ==
    (/\ ExportEnded
     /\ ~run.selective
     /\ run.ret # "raised") =>
        \A k \in 1..Len(run.fetched_tracks) :
            (run.fetched_tracks[k].status = "truncated" /\ run.fetched_tracks[k].pages >= 1) =>
                /\ Len(run.playlist_data) = Len(run.playlists_raw)
                /\ run.playlist_data[k].vals[5] = List(<<>>)

\* C16 as stated: when the liked-songs fetch fails, at its first page or at
\* a later one, the snapshot is saved with every exported playlist and an
\* empty liked_songs list, and run_export returns True.
C16_LikedFailureExportsEmpty ==
    (ExportEnded /\ run.fetched_liked.status = "truncated") =>
        /\ run.ret = "True"
        /\ disk = FileOf(ExportContent(run.playlist_data, <<>>))
        /\ Len(run.playlist_data) = Len(run.playlists_raw)

(***************************************************************************)
(* run_import (main.py:209-265) and the GUI's import (gui.py:690-784:      *)
(* _run_import_thread, _continue_import) on a snapshot file.  Each call of *)
(* the manager runs the writer's steps.  In the GUI the playlist selection *)
(* dialog comes before the liked songs, in main.py after them.             *)
(***************************************************************************)
\* spotify_manager.py:275-278: user_playlist_create is called with user,
\* name and public only, so the call carries the default of its description
\* parameter, the empty string
CreateDescription == Str("")

\* the mutating remote calls writer b has issued so far, in call order;
\* name and public are the arguments of the create-playlist call
CallsOf(b, name, public) ==
    LET entry(call, uris) == [call |-> call, name |-> name, public |-> public,
                              description |-> CreateDescription, uris |-> uris]
        chunks(call) == [k \in 1..Len(b.calls) |-> entry(call, b.calls[k])]
    IN  CASE b.op = "create_playlist_and_add_tracks" ->
               (IF b.new_playlist # "none" THEN <<entry("create-playlist", <<>>)>> ELSE <<>>)
               \o chunks("add-items")
          [] b.op = "add_tracks_to_library" -> chunks("save-tracks")
          [] b.op = "remove_tracks_from_library" -> chunks("remove-saved-tracks")
          [] b.op = "unfollow_playlist" ->
               IF b.sp /\ b.pc # "start" THEN <<entry("unfollow-playlist", <<>>)>> ELSE <<>>
          [] OTHER -> <<>>

\* the mutating remote calls the run has issued so far
Issued == run.log \o CallsOf(batch, run.name, run.public)

\* the writer the run called has returned or raised
Written == batch.pc \in {"done", "raised"}

\* the run after the writer it called ended: its calls are logged, and an
\* exception out of the writer leaves main.py's run
AfterWriter(r, pc) ==
    LET logged == [r EXCEPT !.log = Issued, !.name = Lit("null"), !.public = Lit("null")]
    IN  IF batch.pc = "raised" THEN RunRaised(logged) ELSE [logged EXCEPT !.pc = pc]

\* the phases with the liked songs after the playlists (a faulty variant of
\* Phases)
PhasesLikedLast(ui) == <<"select", "playlists", "liked">>

\* the order of the phases after the load: main.py handles the liked songs
\* (lines 220-231), then the selection (234-246) and the playlists
\* (249-260); the GUI shows the selection dialog first (gui.py:717-722),
\* then handles the liked songs (742-756) and the playlists (759-770)
Phases(ui) ==
    IF ui = "cli" THEN <<"liked", "select", "playlists">>
                  ELSE <<"select", "liked", "playlists">>

\* the phase that follows phase pc in phases, "end" after the last
PhaseAfter(phases, pc) ==
    LET k == CHOOSE j \in 1..Len(phases) : phases[j] = pc
    IN  IF k = Len(phases) THEN "end" ELSE phases[k + 1]

\* main.py:214 and gui.py:694: data_to_import = load_data(data_file)
ImportStart ==
    /\ run.kind = "import"
    /\ run.pc = "start"
    /\ io' = LoadCalled(disk)
    /\ run' = [run EXCEPT !.pc = "loading"]
    /\ UNCHANGED <<api, fetch, batch, disk, env, auth, client>>

\* main.py:215-217 and gui.py:695-699: if not data_to_import, abort
ImportLoaded ==
    /\ run.kind = "import"
    /\ run.pc = "loading"
    /\ io.pc = "done"
    /\ run' = IF io.ret = Lit("null")
              THEN [run EXCEPT !.pc = "done", !.ret = "False"]
              ELSE [run EXCEPT !.data = io.ret, !.pc = Phases(run.ui)[1],
                               !.to_import = Get(io.ret, "playlists").elems]
    /\ UNCHANGED <<api, fetch, batch, disk, io, env, auth, client>>

\* main.py:220-231 and gui.py:742-756: import_liked is True, or the answer
\* to the question in a selective run with liked songs; the liked songs are
\* added to the library
ImportLiked ==
    /\ run.kind = "import"
    /\ run.pc = "liked"
    /\ LET liked == Get(run.data, "liked_songs").elems
       IN  \E answer \in IF run.selective /\ liked # <<>> THEN BOOLEAN ELSE {TRUE} :
              LET asked == IF run.selective /\ liked # <<>>
                           THEN Append(run.answers, Answer("liked", answer))
                           ELSE run.answers
              IN  IF liked # <<>> /\ answer
                  THEN /\ batch' = BatchCalledOn("add_tracks_to_library", TRUE, TRUE, liked)
                       /\ run' = [run EXCEPT !.import_liked = answer, !.answers = asked,
                                             !.pc = "liking"]
                  ELSE /\ batch' = batch
                       /\ run' = [run EXCEPT !.import_liked = answer, !.answers = asked,
                                             !.pc = PhaseAfter(Phases(run.ui), "liked")]
    /\ UNCHANGED <<api, fetch, disk, io, env, auth, client>>

\* main.py:227 and gui.py:752: add_tracks_to_library has ended; in the GUI
\* the except clause of gui.py:780 ends the import when it raised
ImportLikedDone ==
    /\ run.kind = "import"
    /\ run.pc = "liking"
    /\ Written
    /\ run' = AfterWriter(run, PhaseAfter(Phases(run.ui), "liked"))
    /\ batch' = BatchIdle
    /\ UNCHANGED <<api, fetch, disk, io, env, auth, client>>

\* main.py:234-246 and gui.py:717-730: the playlists to import are all the
\* playlists of the file or, in a selective run, those selected.  Listing
\* the playlists for the selection calls playlist.get on every entry, which
\* raises for an entry that is not a dict (main.py:45, gui.py:1073).
\* main.py returns when nothing is selected; the GUI goes on to the liked
\* songs.
ImportSelect ==
    /\ run.kind = "import"
    /\ run.pc = "select"
    /\ IF run.to_import = <<>> \/ ~run.selective
       THEN run' = [run EXCEPT !.pc = PhaseAfter(Phases(run.ui), "select")]
       ELSE IF \E k \in 1..Len(run.to_import) : ~IsDict(run.to_import[k])
       THEN run' = RunRaised(run)
       ELSE \E sel \in SUBSET (1..Len(run.to_import)) :
              run' = IF sel = {} /\ run.ui = "cli"
                     THEN [run EXCEPT !.to_import = <<>>, !.pc = "done",
                                      !.selection = sel,
                                      !.ret = IF run.import_liked THEN "True" ELSE "False"]
                     ELSE [run EXCEPT !.to_import = SubList(@, sel, 1),
                                      !.selection = sel,
                                      !.pc = PhaseAfter(Phases(run.ui), "select")]
    /\ UNCHANGED <<api, fetch, batch, disk, io, env, auth, client>>

\* main.py:250-259 and gui.py:762-770: one playlist of the loop.  playlist.get
\* raises for an entry that is not a dict; an entry whose tracks are not a
\* list is skipped; otherwise the playlist is created with its tracks
ImportPlaylist ==
    /\ run.kind = "import"
    /\ run.pc = "playlists"
    /\ run.i < Len(run.to_import)
    /\ LET playlist == run.to_import[run.i + 1]
       IN  IF ~IsDict(playlist)
           THEN /\ run' = RunRaised(run)
                /\ batch' = batch
           ELSE LET playlist_name ==
                        GetOr(playlist, "name",
                              Str("Imported Playlist " \o ToString(run.i + 1)))
                    is_public == GetOr(playlist, "public", Lit("false"))
                    track_uris == GetOr(playlist, "tracks", List(<<>>))
                IN  IF ~IsList(track_uris)
                    THEN /\ run' = [run EXCEPT !.i = @ + 1]
                         /\ batch' = batch
                    ELSE /\ run' = [run EXCEPT !.i = @ + 1, !.pc = "creating",
                                               !.name = playlist_name,
                                               !.public = is_public]
                         /\ batch' = BatchCalledOn("create_playlist_and_add_tracks",
                                                   TRUE, TRUE, track_uris.elems)
    /\ UNCHANGED <<api, fetch, disk, io, env, auth, client>>

\* main.py:259-260 and gui.py:770: create_playlist_and_add_tracks returned
ImportPlaylistDone ==
    /\ run.kind = "import"
    /\ run.pc = "creating"
    /\ Written
    /\ run' = AfterWriter(run, "playlists")
    /\ batch' = BatchIdle
    /\ UNCHANGED <<api, fetch, disk, io, env, auth, client>>

\* main.py:249 and gui.py:761: the loop over the playlists is over
ImportPlaylistsOver ==
    /\ run.kind = "import"
    /\ run.pc = "playlists"
    /\ run.i = Len(run.to_import)
    /\ run' = [run EXCEPT !.pc = PhaseAfter(Phases(run.ui), "playlists")]
    /\ UNCHANGED <<api, fetch, batch, disk, io, env, auth, client>>

\* main.py:264-265 and gui.py:772-778: the import succeeded
ImportEnd ==
    /\ run.kind = "import"
    /\ run.pc = "end"
    /\ run' = [run EXCEPT !.pc = "done", !.ret = "True"]
    /\ UNCHANGED <<api, fetch, batch, disk, io, env, auth, client>>

\* a playlist record with some of its keys left out or with tracks that are
\* not a list
BarePlaylist == Dict(<<"tracks">>, <<List(TrackList("p9", 1))>>)

TracklessPlaylist == Dict(<<"name", "tracks">>, <<Str("name8"), Str("p8t1")>>)
\* a playlist record with a description, as main.py:177 exports it
DescribedPlaylist == PlaylistRecord("p7", "name7", FALSE, "about", TrackList("p7", 1))

\* values that are JSON but fail the validation of load_data, or pass it
\* with a playlists array that does not hold playlist records only
InvalidValues ==
    {List(<<>>), Str("playlists"), Dict(<<>>, <<>>),
     Dict(<<"playlists">>, <<List(<<>>)>>),
     Dict(<<"liked_songs">>, <<List(TrackList("liked", 1))>>),
     Dict(<<"playlists", "liked_songs">>, <<Str("p1"), List(<<>>)>>),
     Dict(<<"playlists", "liked_songs">>, <<List(<<>>), Lit("null")>>)}
    \cup {ExportContent(playlists, TrackList("liked", nl)) :
            playlists \in {<<Str("p1")>>, <<SnapshotPlaylist(1, 1), Str("p2")>>,
                           <<SnapshotPlaylist(1, 1), List(<<>>)>>},
            nl \in 0..1}

\* snapshots whose playlist records are unusual but are records
OddSnapshots ==
    {ExportContent(playlists, TrackList("liked", 1)) :
        playlists \in {<<BarePlaylist>>, <<TracklessPlaylist, SnapshotPlaylist(2, 1)>>,
                       <<DescribedPlaylist>>}}

\* texts that are not JSON: the empty file and snapshots cut short
BrokenTexts ==
    {<<>>} \cup {SubSeq(Chunks(SnapshotOf(1, <<1>>, 1)), 1, n) : n \in {1, 5, 20}}
           \cup {Chunks(SnapshotOf(0, <<>>, 0)) \o <<Punct("}")>>}

\* the files an import may find at data_file
ImportFiles ==
    {NoFile} \cup {File(text) : text \in BrokenTexts}
             \cup {FileOf(v) : v \in Snapshots \cup OddSnapshots \cup InvalidValues}

InitImport ==
    /\ api = ApiIdle
    /\ fetch = FetchIdle
    /\ batch = BatchIdle
    /\ io = IoIdle
    /\ env = EnvLimited
    /\ auth = AuthIdle
    /\ client = ClientIdle
    /\ disk \in ImportFiles
    /\ \E selective \in BOOLEAN, ui \in {"cli", "gui"} :
          run = [RunIdle EXCEPT !.kind = "import", !.pc = "start",
                                !.selective = selective, !.ui = ui]

NextImport ==
    \/ ImportStart \/ ImportLoaded \/ ImportLiked \/ ImportLikedDone
    \/ ImportSelect \/ ImportPlaylist \/ ImportPlaylistDone \/ ImportPlaylistsOver
    \/ ImportEnd
    \/ LoadOpen \/ LoadRead
    \/ LibraryStart \/ LibraryBatch \/ CreatePlaylist \/ AddItemsBatch

SpecImport == InitImport /\ [][NextImport]_vars

(***************************************************************************)
(* Properties of the import (SpecImport).                                  *)
(***************************************************************************)
\* the file is a snapshot: JSON, a dict whose playlists and liked_songs are
\* arrays, every entry of playlists a record
WellFormedFile(file) ==
    /\ file.exists
    /\ JsonLoad(file.text).ok
    /\ LET data == JsonLoad(file.text).val
       IN  /\ ValidData(data)
           /\ \A k \in 1..Len(Get(data, "playlists").elems) :
                 IsDict(Get(data, "playlists").elems[k])

\* C17 as stated: an import whose snapshot file is missing, malformed or
\* structurally invalid, a playlists array with an entry that is not a
\* record included, issues no mutating remote call.
C17_InvalidSnapshotNoMutation ==
    (run.kind = "import" /\ ~WellFormedFile(disk)) => Issued = <<>>

IsPlaylistCall(c) == c.call \in {"create-playlist", "add-items"}

\* every add-items call follows the create-playlist call of its playlist
CreateBeforeAdd ==
    \A k \in 1..Len(Issued) :
        Issued[k].call = "add-items" =>
            /\ k > 1
            /\ IsPlaylistCall(Issued[k - 1])
            /\ Issued[k - 1].name = Issued[k].name
            /\ Issued[k - 1].public = Issued[k].public

\* C18 as stated: in an import, the create-playlist call of each kept
\* playlist precedes its add-items calls, and the save-tracks calls for the
\* liked songs are issued only after the create and add calls of every
\* kept playlist.
C18_LikedAfterPlaylists ==
    run.kind = "import" =>
        /\ CreateBeforeAdd
        /\ \A j, k \in 1..Len(Issued) :
              (Issued[j].call = "save-tracks" /\ IsPlaylistCall(Issued[k])) => k < j

\* C18 amended: in an import by run_import or by the GUI, the
\* create-playlist call of each kept playlist precedes its add-items calls,
\* and the save-tracks calls for the liked songs are issued before the
\* create and add calls of every kept playlist.
C18_LikedBeforePlaylists ==
    run.kind = "import" =>
        /\ CreateBeforeAdd
        /\ \A j, k \in 1..Len(Issued) :
              (Issued[j].call = "save-tracks" /\ IsPlaylistCall(Issued[k])) => j < k

C18_Witness ==
    /\ run.kind = "import"
    /\ run.pc = "done"
    /\ run.ret = "True"
    /\ run.ui = "gui"
    /\ [k \in 1..Len(Issued) |-> Issued[k].call] =
          <<"save-tracks", "create-playlist", "add-items", "create-playlist", "add-items">>

\* the playlists array of the snapshot the import loaded
SnapshotPlaylists == Get(run.data, "playlists").elems

\* every entry of the playlists array is a playlist record with a list of
\* tracks
PlaylistRecordsOnly ==
    \A k \in 1..Len(SnapshotPlaylists) :
        /\ IsDict(SnapshotPlaylists[k])
        /\ IsList(GetOr(SnapshotPlaylists[k], "tracks", List(<<>>)))

\* the j-th smallest position of the selection sel
Nth(sel, j) == CHOOSE i \in sel : Cardinality({x \in sel : x <= i}) = j

\* the j-th selected playlist of the snapshot
Selected(j) == SnapshotPlaylists[Nth(run.selection, j)]

\* the n-th chunk of MAX_TRACKS_PER_ADD tracks of a track list
ChunkOf(tracks, n) ==
    SubSeq(tracks, (n - 1) * MAX_TRACKS_PER_ADD + 1, Min(n * MAX_TRACKS_PER_ADD, Len(tracks)))

\* the number of chunks of a track list
ChunkCount(tracks) == (Len(tracks) + MAX_TRACKS_PER_ADD - 1) \div MAX_TRACKS_PER_ADD

\* the create-playlist and add-items calls issued so far, in call order
PlaylistCalls == SelectSeq(Issued, IsPlaylistCall)

\* the positions of the create-playlist calls among PlaylistCalls
Creates == {q \in 1..Len(PlaylistCalls) : PlaylistCalls[q].call = "create-playlist"}

\* the number of create-playlist calls up to position q
CreatesUpTo(q) == Cardinality({c \in Creates : c <= q})

\* the position of the last create-playlist call before position q
LastCreate(q) == CHOOSE c \in Creates : c < q /\ \A d \in Creates : d < q => d <= c

\* the number of add-items calls that follow the create-playlist call at c
AddsAfter(c) ==
    Cardinality({q \in 1..Len(PlaylistCalls) :
                    /\ q > c
                    /\ PlaylistCalls[q].call = "add-items"
                    /\ CreatesUpTo(q) = CreatesUpTo(c)})

\* run_import after a selection was confirmed
ImportWithSelection ==
    /\ run.kind = "import"
    /\ run.ui = "cli"
    /\ run.selective
    /\ run.selection # {}

LoadEnded == io.op = "load_data" /\ io.pc = "done"

\* load_data is called on the file save_data has just written
CodecReload ==
    /\ io.op = "save_data"
    /\ io.pc = "done"
    /\ io' = [LoadCalled(disk) EXCEPT !.saved = io.data]
    /\ UNCHANGED <<api, fetch, batch, disk, run, env, auth, client>>

\* the files of a second call of load_data: none, or one that is not JSON
LaterFiles == {NoFile} \cup {File(text) : text \in BrokenTexts}

\* load_data is called again after the file at the path was removed or
\* replaced
CodecLoadAgain ==
    /\ LoadEnded
    /\ ~io.prev.ended
    /\ io.saved = Lit("null")
    /\ \E file \in LaterFiles :
          /\ disk' = file
          /\ io' = [LoadCalled(file) EXCEPT
                       !.prev = [ended |-> TRUE, exc |-> io.exc, ret |-> io.ret]]
    /\ UNCHANGED <<api, fetch, batch, run, env, auth, client>>

InitCodec ==
    /\ api = ApiIdle
    /\ fetch = FetchIdle
    /\ batch = BatchIdle
    /\ run = RunIdle
    /\ env = EnvLimited
    /\ auth = AuthIdle
    /\ client = ClientIdle
    /\ \/ \E data \in Snapshots, old \in {NoFile, FileOf(SnapshotOf(0, <<>>, 1))} :
             /\ disk = old
             /\ io = SaveCalled(data, old)
       \/ /\ disk \in ImportFiles
          /\ io = LoadCalled(disk)

NextCodec ==
    \/ SaveOpen \/ SaveWrite \/ SaveClose
    \/ LoadOpen \/ LoadRead
    \/ CodecReload \/ CodecLoadAgain

SpecCodec == InitCodec /\ [][NextCodec]_vars

\* C25: a call of load_data on a missing file and a call on a file whose
\* content is not JSON hand their caller different results.
C25_MissingAndMalformedDistinct ==
    (LoadEnded /\ io.prev.ended) =>
        /\ (io.prev.exc = "FileNotFoundError" /\ io.exc = "JSONDecodeError") =>
              io.prev.ret # io.ret
        /\ (io.prev.exc = "JSONDecodeError" /\ io.exc = "FileNotFoundError") =>
              io.prev.ret # io.ret

\* C26: load_data returns None, and nothing of the data read, for every
\* JSON file whose top-level value is not a dict, or has no playlists key
\* or one that is not a list, or has no liked_songs key or one that is not
\* a list; it returns the parsed dict for every file that meets the three
\* conditions.
C26_ValidationRejectsOrReturns ==
    (LoadEnded /\ io.exc = "none") =>
        LET data == JsonLoad(disk.text).val
        IN  IF /\ data.t = "dict"
               /\ HasKey(data, "playlists") /\ Get(data, "playlists").t = "list"
               /\ HasKey(data, "liked_songs") /\ Get(data, "liked_songs").t = "list"
            THEN io.ret = data
            ELSE io.ret = Lit("null")

\* a file whose top-level dict has a playlists list and no liked_songs key
\* was rejected
C26_Witness ==
    /\ LoadEnded
    /\ io.exc = "none"
    /\ JsonLoad(disk.text).val = Dict(<<"playlists">>, <<List(<<>>)>>)
    /\ io.ret = Lit("null")

\* C27: for every well-formed snapshot S, whatever the file held before,
\* load_data applied to the file a completed save_data(S) has written
\* returns, unless open fails, a value equal to S: the same keys with the
\* same values, the playlists, the tracks of each playlist and the liked
\* songs in the same order.
C27_RoundTrip ==
    (LoadEnded /\ io.saved # Lit("null") /\ io.exc # "IOError") =>
        /\ io.exc = "none"
        /\ io.ret = io.saved
        /\ Get(io.ret, "playlists").elems = Get(io.saved, "playlists").elems
        /\ Get(io.ret, "liked_songs").elems = Get(io.saved, "liked_songs").elems

\* a snapshot of two playlists with two tracks each and two liked songs was
\* written and loaded back
C27_Witness ==
    /\ LoadEnded
    /\ io.saved = SnapshotOf(2, <<2, 2>>, 2)
    /\ io.old = FileOf(io.saved)
    /\ io.ret = io.saved

(***************************************************************************)
(* A migration: run_export on an account, then run_import of the snapshot  *)
(* it saved (main.py:134-265), every remote call and file operation        *)
(* succeeding.  The account has one playlist; some of its items carry no   *)
(* track uri.                                                              *)
(***************************************************************************)
\* an environment in which no operation fails
EnvReliable == [limited |-> TRUE, faults |-> MaxFaults]

\* the maps of item numbers up to n to what the item carries instead of a
\* track uri
OddItems(n) == UNION {[ids -> OddKinds] : ids \in SUBSET (1..n)}

\* the accounts of a migration: one playlist with any of its items without
\* uri, and up to one liked song
MigrateAccounts ==
    {[playlists |-> 1, tracks |-> <<nt>>, liked |-> nl, odd |-> odd] :
        nt \in 0..MaxRunTracks, nl \in 0..1, odd \in OddItems(MaxRunTracks)}

\* run_import is started on the file the export has written
MigrateImport ==
    /\ run.kind = "export"
    /\ run.pc = "done"
    /\ run.ret = "True"
    /\ run' = [RunIdle EXCEPT !.kind = "import", !.pc = "start", !.acct = run.acct]
    /\ UNCHANGED <<api, fetch, batch, disk, io, env, auth, client>>

InitMigrate ==
    /\ api = ApiIdle
    /\ fetch = FetchIdle
    /\ batch = BatchIdle
    /\ io = IoIdle
    /\ env = EnvReliable
    /\ auth = AuthIdle
    /\ client = ClientIdle
    /\ disk = NoFile
    /\ \E acct \in MigrateAccounts :
          run = [RunIdle EXCEPT !.kind = "export", !.pc = "start", !.acct = acct]

NextMigrate ==
    \/ ExportStart \/ ExportListed \/ ExportFetchTracks \/ ExportPlaylistFetched
    \/ ExportLiked \/ ExportLikedFetched \/ ExportSave \/ ExportSaved
    \/ FetchFirst \/ FetchLoop \/ FetchReturn
    \/ SaveOpen \/ SaveWrite \/ SaveClose
    \/ MigrateImport
    \/ ImportStart \/ ImportLoaded \/ ImportLiked \/ ImportLikedDone
    \/ ImportSelect \/ ImportPlaylist \/ ImportPlaylistDone \/ ImportPlaylistsOver
    \/ ImportEnd
    \/ LoadOpen \/ LoadRead
    \/ LibraryStart \/ LibraryBatch \/ CreatePlaylist \/ AddItemsBatch

SpecMigrate == InitMigrate /\ [][NextMigrate]_vars

\* the track uris of items k..n of a list of owner, in list order, the
\* items without uri left out
RECURSIVE PlayableUris(_, _, _, _)
PlayableUris(owner, k, n, odd) ==
    IF k > n THEN <<>>
    ELSE (IF k \in DOMAIN odd THEN <<>> ELSE <<Str(Uri(owner \o "t", k))>>)
         \o PlayableUris(owner, k + 1, n, odd)

\* the uris of the add-items calls between the create-playlist call at
\* position c and the next one, from position q on, in call order
RECURSIVE AddedFrom(_, _)
AddedFrom(c, q) ==
    IF q > Len(PlaylistCalls) \/ PlaylistCalls[q].call = "create-playlist" THEN <<>>
    ELSE PlaylistCalls[q].uris \o AddedFrom(c, q + 1)

\* the import of a migration has ended
Migrated == run.kind = "import" /\ run.pc = "done" /\ run.acct # NoAccount

C29_UnplayableItemsFiltered ==
    LET odd == run.acct.odd
        playlist == PlayableUris("p1", 1, run.acct.tracks[1], odd)
        liked == PlayableUris("liked", 1, run.acct.liked, odd)
    IN  /\ (run.kind = "export" /\ run.playlist_data # <<>>) =>
              Get(run.playlist_data[1], "tracks").elems = playlist
        /\ (run.kind = "export" /\ run.fetched_liked # NotFetched) =>
              run.liked_songs = liked
        /\ (run.kind = "export" /\ run.pc = "done") =>
              disk = FileOf(ExportContent(<<ExportedPlaylist(1, playlist)>>, liked))
        /\ run.kind = "import" =>
              \A k \in 1..Len(Issued) :
                  \A u \in 1..Len(Issued[k].uris) :
                      \E j \in 1..Len(playlist \o liked) :
                          Issued[k].uris[u] = (playlist \o liked)[j]

\* a playlist and the liked songs whose first item has a null track were
\* exported and replayed: the snapshot and the add-items call hold the
\* second item of the playlist only
C29_Witness ==
    /\ Migrated
    /\ run.acct.tracks = <<2>>
    /\ run.acct.liked = 1
    /\ run.acct.odd = [k \in {1} |-> "null track"]
    /\ disk = FileOf(ExportContent(<<ExportedPlaylist(1, <<Str(Uri("p1t", 2))>>)>>, <<>>))
    /\ [q \in 1..Len(PlaylistCalls) |-> PlaylistCalls[q].uris]
          = <<<<>>, <<Str(Uri("p1t", 2))>>>>

\* the positions of the snapshot's playlists array that hold a playlist
\* record whose tracks are a list (main.py:253-257)
ListedRecords ==
    {k \in 1..Len(SnapshotPlaylists) :
        /\ IsDict(SnapshotPlaylists[k])
        /\ IsList(GetOr(SnapshotPlaylists[k], "tracks", List(<<>>)))}

\* run_import without selection has ended after load_data returned the
\* snapshot
ImportOverAfterLoad ==
    /\ run.kind = "import"
    /\ run.ui = "cli"
    /\ ~run.selective
    /\ run.pc = "done"
    /\ run.data # Lit("null")

\* C30: once the snapshot has loaded, run_import without selection ends by
\* returning True, having issued one create-playlist call for every entry
\* of the playlists array that is a record with a list of tracks, whatever
\* calls failed on the way.
C30_LoadedImportSucceeds ==
    ImportOverAfterLoad =>
        /\ run.ret = "True"
        /\ Cardinality(Creates) = Cardinality(ListedRecords)

\* the j-th playlist record of the snapshot whose tracks are a list
Listed(j) == SnapshotPlaylists[Nth(ListedRecords, j)]

\* C34: in an import without selection, the j-th create-playlist call
\* carries the name, the public flag and the description of the j-th
\* playlist record of the snapshot, public being false and description
\* empty when the record has none.
C34_CreateCarriesRecord ==
    (run.kind = "import" /\ ~run.selective /\ run.data # Lit("null")) =>
        \A c \in Creates :
            LET j == CreatesUpTo(c)
            IN  /\ j <= Cardinality(ListedRecords)
                /\ PlaylistCalls[c].name =
                       GetOr(Listed(j), "name", Str("Imported Playlist " \o ToString(j)))
                /\ PlaylistCalls[c].public = GetOr(Listed(j), "public", Lit("false"))
                /\ PlaylistCalls[c].description = GetOr(Listed(j), "description", Str(""))

(***************************************************************************)
(* run_erase (main.py:267-349) and the GUI's erase (gui.py:786-989:        *)
(* start_erase .. _final_liked_songs_confirmation) on an account.  The     *)
(* questions asked of the user are "all" and "all again" (the double       *)
(* confirmation of a full erase), "playlists" (proceed with the deletion   *)
(* of the playlists listed), "liked" (delete liked songs?) and "liked      *)
(* final" (delete N liked songs?).                                         *)
(***************************************************************************)
\* the phases with the liked songs before the playlists (a faulty variant
\* of ErasePhases)
ErasePhasesLikedFirst(ui) == <<"liked", "unfollow">>

\* main.py:310-346 and gui.py:891-899: the playlists are deleted, then the
\* liked songs are handled
ErasePhases(ui) == <<"unfollow", "liked">>

\* the playlists deleted whatever the answer (a faulty variant of
\* PlaylistsToDelete)
PlaylistsToDeleteAnyway(selected, confirm) == selected

\* main.py:300-303 and gui.py:889-908: the playlists are deleted only when
\* the answer to "Proceed with deletion?" is yes
PlaylistsToDelete(selected, confirm) == IF confirm THEN selected ELSE <<>>

\* main.py:272-285 and gui.py:793-832: a full erase asks twice and ends at
\* the first answer that is not yes; then the playlists are fetched
EraseStart ==
    /\ run.kind = "erase"
    /\ run.pc = "start"
    /\ IF run.selective
       THEN /\ run' = [run EXCEPT !.pc = "listing"]
            /\ fetch' = FetchCalled(TRUE, RunSource(run.acct.playlists), NoReturn)
       ELSE \E confirm \in BOOLEAN, double_confirm \in BOOLEAN :
              IF ~confirm
              THEN /\ ~double_confirm
                   /\ run' = [run EXCEPT !.pc = "done", !.ret = "False",
                                         !.answers = <<Answer("all", FALSE)>>]
                   /\ fetch' = fetch
              ELSE IF ~double_confirm
              THEN /\ run' = [run EXCEPT !.pc = "done", !.ret = "False",
                                         !.answers = <<Answer("all", TRUE),
                                                       Answer("all again", FALSE)>>]
                   /\ fetch' = fetch
              ELSE /\ run' = [run EXCEPT !.pc = "listing",
                                         !.answers = <<Answer("all", TRUE),
                                                       Answer("all again", TRUE)>>]
                   /\ fetch' = FetchCalled(TRUE, RunSource(run.acct.playlists), NoReturn)
    /\ UNCHANGED <<api, batch, disk, io, env, auth, client>>

\* main.py:285-309 and gui.py:832-908: get_all_playlists has returned a list
\* (never None).  A selective run deletes the playlists selected, after the
\* answer yes to "Proceed with deletion?"; a full run deletes all of them,
\* in the GUI after that same question
EraseListed ==
    /\ run.kind = "erase"
    /\ run.pc = "listing"
    /\ Fetched
    /\ fetch' = FetchIdle
    /\ IF fetch.pc = "raised"
       THEN run' = RunRaised([run EXCEPT !.listed = FetchEnd])
       ELSE \E sel \in IF run.selective THEN SUBSET (1..Len(fetch.items))
                                        ELSE {1..Len(fetch.items)} :
            \E confirm \in BOOLEAN :
              LET selected == SubList(fetch.items, sel, 1)
                  asked == selected # <<>> /\ (run.selective \/ run.ui = "gui")
              IN  /\ ~asked => confirm
                  /\ run' = [run EXCEPT
                               !.listed = FetchEnd,
                               !.playlists_raw = PlaylistsToDelete(selected, confirm),
                               !.answers = IF asked
                                           THEN Append(@, Answer("playlists", confirm))
                                           ELSE @,
                               !.i = 0,
                               !.pc = ErasePhases(run.ui)[1]]
    /\ UNCHANGED <<api, batch, disk, io, env, auth, client>>

\* main.py:311-318 and gui.py:893-897: manager.unfollow_playlist(playlist_id)
\* for the next playlist to delete
EraseUnfollow ==
    /\ run.kind = "erase"
    /\ run.pc = "unfollow"
    /\ run.i < Len(run.playlists_raw)
    /\ batch' = BatchCalledOn("unfollow_playlist", TRUE, TRUE, <<>>)
    /\ run' = [run EXCEPT !.i = @ + 1, !.pc = "unfollowing",
                          !.name = Str(Uri("p", run.playlists_raw[run.i + 1]))]
    /\ UNCHANGED <<api, fetch, disk, io, env, auth, client>>

\* main.py:318-319: unfollow_playlist has ended
EraseUnfollowed ==
    /\ run.kind = "erase"
    /\ run.pc = "unfollowing"
    /\ Written
    /\ run' = AfterWriter(run, "unfollow")
    /\ batch' = BatchIdle
    /\ UNCHANGED <<api, fetch, disk, io, env, auth, client>>

\* main.py:320-322: the loop over the playlists is over
EraseUnfollowOver ==
    /\ run.kind = "erase"
    /\ run.pc = "unfollow"
    /\ run.i = Len(run.playlists_raw)
    /\ run' = [run EXCEPT !.pc = PhaseAfter(ErasePhases(run.ui), "unfollow")]
    /\ UNCHANGED <<api, fetch, batch, disk, io, env, auth, client>>

\* main.py:325-332 and gui.py:910-944: delete_liked is True in a full erase
\* and the answer to "Delete liked songs?" in a selective one; the liked
\* songs are fetched from the account
EraseLiked ==
    /\ run.kind = "erase"
    /\ run.pc = "liked"
    /\ \E delete_liked \in IF run.selective THEN BOOLEAN ELSE {TRUE} :
          /\ run' = [run EXCEPT
                       !.answers = IF run.selective
                                   THEN Append(@, Answer("liked", delete_liked)) ELSE @,
                       !.issued_before_liked = Len(Issued),
                       !.pc = IF delete_liked THEN "liked fetching"
                              ELSE PhaseAfter(ErasePhases(run.ui), "liked")]
          /\ fetch' = IF delete_liked
                      THEN FetchCalled(TRUE, RunSource(run.acct.liked), NoReturn)
                      ELSE fetch
    /\ UNCHANGED <<api, batch, disk, io, env, auth, client>>

\* main.py:332-344 and gui.py:944-989: get_liked_songs has returned a list
\* (never None); when it is not empty the songs are removed after the answer
\* yes to "Delete N liked songs?"
EraseLikedFetched ==
    /\ run.kind = "erase"
    /\ run.pc = "liked fetching"
    /\ Fetched
    /\ fetch' = FetchIdle
    /\ IF fetch.pc = "raised"
       THEN /\ run' = RunRaised([run EXCEPT !.fetched_liked = FetchEnd])
            /\ batch' = batch
       ELSE LET liked_songs == TrackUris("liked", fetch.items)
                fetched == [run EXCEPT !.fetched_liked = FetchEnd,
                                       !.liked_songs = liked_songs]
            IN  \E confirm \in IF liked_songs = <<>> THEN {FALSE} ELSE BOOLEAN :
                  /\ run' = [fetched EXCEPT
                               !.answers = IF liked_songs = <<>> THEN @
                                           ELSE Append(@, Answer("liked final", confirm)),
                               !.pc = IF confirm THEN "removing"
                                      ELSE PhaseAfter(ErasePhases(run.ui), "liked")]
                  /\ batch' = IF confirm
                              THEN BatchCalledOn("remove_tracks_from_library", TRUE, TRUE,
                                                 liked_songs)
                              ELSE batch
    /\ UNCHANGED <<api, disk, io, env, auth, client>>

\* main.py:339-340 and gui.py:978-980: remove_tracks_from_library has ended
EraseRemoved ==
    /\ run.kind = "erase"
    /\ run.pc = "removing"
    /\ Written
    /\ run' = AfterWriter(run, PhaseAfter(ErasePhases(run.ui), "liked"))
    /\ batch' = BatchIdle
    /\ UNCHANGED <<api, fetch, disk, io, env, auth, client>>

\* main.py:348-349: return True
EraseEnd ==
    /\ run.kind = "erase"
    /\ run.pc = "end"
    /\ run' = [run EXCEPT !.pc = "done", !.ret = "True"]
    /\ UNCHANGED <<api, fetch, batch, disk, io, env, auth, client>>

\* the accounts of an erase: playlists and liked songs (the tracks of the
\* playlists are not read)
EraseAccounts == {a \in Accounts : \A p \in 1..a.playlists : a.tracks[p] = 0}

InitErase ==
    /\ api = ApiIdle
    /\ fetch = FetchIdle
    /\ batch = BatchIdle
    /\ io = IoIdle
    /\ env = EnvLimited
    /\ auth = AuthIdle
    /\ client = ClientIdle
    /\ disk \in {NoFile, FileOf(ExportContent(<<>>, TrackList("old", MaxRunTracks)))}
    /\ \E selective \in BOOLEAN, ui \in {"cli", "gui"}, acct \in EraseAccounts :
          run = [RunIdle EXCEPT !.kind = "erase", !.pc = "start",
                                !.selective = selective, !.ui = ui, !.acct = acct]

NextErase ==
    \/ EraseStart \/ EraseListed \/ EraseUnfollow \/ EraseUnfollowed
    \/ EraseUnfollowOver \/ EraseLiked \/ EraseLikedFetched \/ EraseRemoved
    \/ EraseEnd
    \/ FetchFirst \/ FetchLoop \/ FetchReturn
    \/ UnfollowPlaylist \/ LibraryStart \/ LibraryBatch

SpecErase == InitErase /\ [][NextErase]_vars

(***************************************************************************)
(* Properties of the erase (SpecErase).                                    *)
(***************************************************************************)
\* the positions of the calls named call among the calls issued
CallsAt(call) == {k \in 1..Len(Issued) : Issued[k].call = call}

\* the uris of the calls named call, in call order
RECURSIVE UrisOf(_, _)
UrisOf(call, k) ==
    IF k = 0 THEN <<>>
    ELSE UrisOf(call, k - 1) \o (IF Issued[k].call = call THEN Issued[k].uris ELSE <<>>)

\* seq is the start of whole
IsPrefix(seq, whole) == Len(seq) <= Len(whole) /\ seq = SubSeq(whole, 1, Len(seq))

\* C19: in an erase every unfollow-playlist call is issued before the first
\* remove-saved-tracks call, and the liked songs removed are those fetched
\* from the account during the run, after the last unfollow call; no
\* snapshot file is read.
C19_PlaylistsBeforeLikedLive ==
    (run.kind = "erase" /\ CallsAt("remove-saved-tracks") # {}) =>
        /\ \A j \in CallsAt("unfollow-playlist") : j <= run.issued_before_liked
        /\ \A k \in CallsAt("remove-saved-tracks") : k > run.issued_before_liked
        /\ run.fetched_liked.status # "none"
        /\ IsPrefix(UrisOf("remove-saved-tracks", Len(Issued)), run.liked_songs)
        /\ IsPrefix(run.liked_songs, TrackList("liked", run.acct.liked))
        /\ io = IoIdle

C19_Witness ==
    /\ run.kind = "erase"
    /\ run.pc = "done"
    /\ run.ret = "True"
    /\ disk.exists
    /\ [k \in 1..Len(Issued) |-> Issued[k].call] =
          <<"unfollow-playlist", "unfollow-playlist", "remove-saved-tracks">>
    /\ Issued[3].uris = TrackList("liked", 2)

\* the user answered yes, or no, to the question
Affirmed(question) ==
    \E k \in 1..Len(run.answers) : run.answers[k] = Answer(question, TRUE)

Declined(question) ==
    \E k \in 1..Len(run.answers) : run.answers[k] = Answer(question, FALSE)

\* C20: in run_erase and in the GUI erase, an unfollow-playlist call is
\* issued only after the answer yes to the deletion of the playlists (the
\* double confirmation of a full erase, or "Proceed with deletion?") and a
\* remove-saved-tracks call only after the answer yes to "Delete N liked
\* songs?"; after an answer no, no destructive call is issued for the part
\* declined.
C20_ConfirmedBeforeDestructive ==
    run.kind = "erase" =>
        /\ CallsAt("unfollow-playlist") # {} =>
              \/ Affirmed("playlists")
              \/ Affirmed("all") /\ Affirmed("all again")
        /\ CallsAt("remove-saved-tracks") # {} =>
              /\ Affirmed("liked final")
              /\ run.selective => Affirmed("liked")
              /\ ~run.selective => Affirmed("all") /\ Affirmed("all again")
        /\ (Declined("all") \/ Declined("all again")) => Issued = <<>>
        /\ Declined("playlists") => CallsAt("unfollow-playlist") = {}
        /\ (Declined("liked") \/ Declined("liked final")) =>
              CallsAt("remove-saved-tracks") = {}

C20_Witness ==
    /\ run.kind = "erase"
    /\ run.pc = "done"
    /\ run.ui = "gui"
    /\ run.answers = <<Answer("all", TRUE), Answer("all again", TRUE),
                       Answer("playlists", FALSE), Answer("liked final", TRUE)>>
    /\ run.acct.playlists = 2
    /\ [k \in 1..Len(Issued) |-> Issued[k].call] = <<"remove-saved-tracks">>

\* the run asked the user whether the liked songs are to be processed
LikedChoiceTaken == Affirmed("liked") \/ Declined("liked")

\* C23: in selective mode, whatever the playlist selection (the empty one
\* and an account or snapshot without playlists included), a run in which
\* no operation fails takes the user's liked-songs choice and processes the
\* liked songs exactly when the answer is yes: run_export fetches them for
\* the snapshot, run_import saves the snapshot's liked songs, run_erase
\* fetches them for removal.
C23_LikedIndependentOfSelection ==
    (run.pc = "done" /\ run.selective /\ run.ret # "raised" /\ env.faults = 0) =>
        CASE run.kind = "export" ->
               /\ LikedChoiceTaken
               /\ Affirmed("liked") <=> run.fetched_liked # NotFetched
          [] run.kind = "import" /\ run.data # Lit("null")
               /\ Get(run.data, "liked_songs").elems # <<>> ->
               /\ LikedChoiceTaken
               /\ Affirmed("liked") <=> CallsAt("save-tracks") # {}
          [] run.kind = "erase" ->
               /\ LikedChoiceTaken
               /\ Affirmed("liked") <=> run.fetched_liked # NotFetched
          [] OTHER -> TRUE

(***************************************************************************)
(* Two calls of authenticate in one process.  The marker and the cache     *)
(* files start in any state earlier runs can have left: the marker is None *)
(* in a fresh process and the username of the last successful call         *)
(* afterwards; a cache file holds the token of whichever account was       *)
(* logged in when it was written.                                          *)
(***************************************************************************)
InitAuth ==
    /\ api = ApiIdle
    /\ fetch = FetchIdle
    /\ batch = BatchIdle
    /\ disk = NoFile
    /\ io = IoIdle
    /\ run = RunIdle
    /\ env = EnvFree
    /\ client = ClientIdle
    /\ \E last \in {None} \cup Usernames,
          cache \in [Usernames -> {NoToken} \cup Usernames],
          username \in [Threads -> Usernames],
          clean_cache \in [Threads -> BOOLEAN] :
         auth = [last |-> last, first |-> last, cache |-> cache,
                 threads |-> [t \in Threads |->
                                 ThreadCalled(username[t], clean_cache[t])]]

NextAuth ==
    \E t \in Threads :
        \/ AuthStart(t)
        \/ AuthCompare(t)
        \/ AuthClean(t)
        \/ AuthConnect(t)
        \/ AuthVerify(t)

SpecAuth == InitAuth /\ [][NextAuth]_vars

\* the call of thread t found the username changed: _should_clean_cache
\* compared the marker with the username and they differed
Switched(t) ==
    /\ Thread(t).seen \notin {"unread", None}
    /\ Thread(t).seen # Thread(t).username
    /\ Thread(t).depth = 0

\* C21 (as stated): when authenticate runs for a username that differs from
\* the username of the preceding authenticated run, the cache slot of the
\* previous (old) username holds no credential when the authentication is
\* attempted.
C21_OldSlotInvalidated ==
    \A t \in Threads :
        (Switched(t) /\ Thread(t).pc = "connect") =>
            \/ auth.cache[Thread(t).seen] = NoToken
            \/ \E k \in 1..Len(Thread(t).removed) :
                  Thread(t).removed[k].path = Thread(t).seen

\* C21 (amended): when authenticate runs for a username that differs from
\* the marker, the step before the authentication attempt removes the cache
\* file of the NEW username (unless os.remove fails, which is only logged)
\* and touches no other cache file: the old username's slot is left as it
\* was.
C21_NewSlotInvalidated ==
    [][\A t \in Threads :
          (Switched(t) /\ Thread(t).pc = "clean" /\ auth'.threads[t].pc = "connect") =>
              /\ Thread(t).clean_cache
              /\ \A u \in Usernames \ {Thread(t).username} :
                    auth'.cache[u] = auth.cache[u]
              /\ \/ auth'.cache[Thread(t).username] = NoToken
                 \/ /\ auth'.threads[t].removed # <<>>
                    /\ ~Last(auth'.threads[t].removed).ok]_vars

C21_Witness ==
    \E t \in Threads :
        /\ Switched(t)
        /\ Thread(t).pc = "connect"
        /\ Thread(t).removed = <<[path |-> Thread(t).username, ok |-> TRUE]>>
        /\ auth.cache[Thread(t).seen] = Thread(t).seen
        /\ auth.cache[Thread(t).username] = NoToken

\* authenticate run alone (no other thread between its first and its last
\* line) for username from marker value m: the value of clean_cache after
\* line 56, the value returned and the marker it leaves.  It returns True
\* only through line 118; when it returns False the marker is as it was,
\* or is the account line 112 stored before a retry that failed.
Serial(m, username, clean_cache) ==
    LET decision == clean_cache \/ ShouldCleanCache(m, m, username)
    IN  {[decision |-> decision, ret |-> TRUE, last |-> username]}
        \cup {[decision |-> decision, ret |-> FALSE, last |-> l] :
                 l \in {m} \cup (IF decision THEN {} ELSE Usernames \ {username})}

\* the outcome of the call of thread t is one of those of a call run alone
\* from marker value m
SerialFrom(m, t) ==
    {o \in Serial(m, Thread(t).username, Thread(t).arg) :
        o.decision = Thread(t).decision /\ o.ret = Thread(t).ret}

AllDone == \A t \in Threads : Thread(t).pc = "done"

\* a call that ran alone behaves as Serial says
SerialSound ==
    \A t \in Threads :
        (Thread(t).pc = "done" /\ Thread(3 - t).pc = "start" /\ Thread(3 - t).depth = 0) =>
            \E o \in SerialFrom(auth.first, t) : o.last = auth.last

\* C22: when two authenticate calls for different usernames have run
\* concurrently, their two clean-cache decisions and the final marker are
\* those of the two calls run one after the other, in one order or the
\* other, with the same return values.
C22_MarkerAtomic ==
    (AllDone /\ Thread(1).username # Thread(2).username) =>
        \E t \in Threads :
            \E o1 \in SerialFrom(auth.first, t) :
                \E o2 \in SerialFrom(o1.last, 3 - t) : o2.last = auth.last

\* C35: whenever authenticate has returned True, the account it
\* authenticated (user_id) is the requested username.
C35_AuthenticatedIsRequested ==
    \A t \in Threads :
        (Thread(t).pc = "done" /\ Thread(t).ret = TRUE) =>
            Thread(t).user_id = Thread(t).username

\* thread t is the only one that has entered authenticate
OnlyCaller(t) ==
    /\ Thread(t).pc # "start" \/ Thread(t).depth > 0
    /\ Thread(3 - t).pc = "start"
    /\ Thread(3 - t).depth = 0

\* C36: the marker is None or the requested username of the most recent
\* authenticate call that returned True; here, with one call made from a
\* marker that satisfied this, the marker is the call's username once it
\* has returned True and is as it was before the call otherwise, while the
\* call runs and after it has returned False.
C36_MarkerIsLastSuccess ==
    \A t \in Threads :
        OnlyCaller(t) =>
            auth.last = IF Thread(t).pc = "done" /\ Thread(t).ret = TRUE
                        THEN Thread(t).username
                        ELSE auth.first

\* authenticate is scheduled until it returns: SpotifyOAuth and me() return
\* or raise
SpecAuthLive == SpecAuth /\ WF_vars(NextAuth)

\* C38: a call of authenticate makes at most two authentication attempts
\* and at most one retry, and every call returns.
C38_AtMostTwoAttempts ==
    /\ [](\A t \in Threads : Thread(t).attempts <= 2 /\ Thread(t).depth <= 1)
    /\ <>AllDone

\* a call that found a mismatch, retried with the cache cleaned, found a
\* mismatch again and returned
C38_Witness ==
    \E t \in Threads :
        /\ Thread(t).pc = "done"
        /\ Thread(t).attempts = 2
        /\ Thread(t).depth = 1
        /\ Thread(t).user_id # Thread(t).username

(***************************************************************************)
(* SpotifyOperations.erase_data (src/src/core/operations.py:146-190) on a  *)
(* client that is authenticated.  args holds the arguments of the call, a  *)
(* list argument being given or None; log lists the remote calls made, in  *)
(* order, with the playlist id or the chunk of track ids.                  *)
(***************************************************************************)
\* a list argument left at None, and one given
NoList == [given |-> FALSE, ids |-> <<>>]

GivenList(ids) == [given |-> TRUE, ids |-> ids]

\* Python's truth value of a list argument: None and [] are false
TruthyList(l) == l.given /\ l.ids # <<>>

\* line 167: actual_playlist_ids = playlist_ids or selected_playlists
ActualPlaylistIds(args) ==
    IF TruthyList(args.playlist_ids) THEN args.playlist_ids ELSE args.selected_playlists

\* lines 170-171: the two flags
ErasePlaylistsFlag(args) == args.erase_playlists \/ args.erase_type \in {"playlists", "both"}

EraseLikedSongsFlag(args) == args.erase_liked_songs \/ args.erase_type \in {"liked_songs", "both"}

\* a remote call of the erase
CoreCall(call, ids) == [call |-> call, ids |-> ids]

\* lines 165-180: the playlists are deleted only when the flag is set and
\* actual_playlist_ids is a non-empty list; otherwise "No playlists
\* selected for deletion" is logged
CoreEraseStart ==
    /\ run.kind = "core_erase"
    /\ run.pc = "start"
    /\ run' = [run EXCEPT !.pc = IF /\ ErasePlaylistsFlag(run.args)
                                    /\ TruthyList(ActualPlaylistIds(run.args))
                                 THEN "deleting" ELSE "liked"]
    /\ UNCHANGED <<api, fetch, batch, disk, io, env, auth, client>>

\* spotify_client.py:337-339: delete_playlists calls delete_playlist for the
\* next id of the list
CoreDeletePlaylist ==
    /\ run.kind = "core_erase"
    /\ run.pc = "deleting"
    /\ run.i < Len(ActualPlaylistIds(run.args).ids)
    /\ client' = ClientCalled("core", "delete_playlist", TRUE, <<>>)
    /\ run' = [run EXCEPT !.pc = "deleted"]
    /\ UNCHANGED <<api, fetch, batch, disk, io, env, auth>>

\* spotify_client.py:338-339: delete_playlist has returned; its result only
\* counts for the log line
CoreDeleted ==
    /\ run.kind = "core_erase"
    /\ run.pc = "deleted"
    /\ client.pc = "done"
    /\ LET id == ActualPlaylistIds(run.args).ids[run.i + 1]
       IN  run' = [run EXCEPT !.pc = "deleting", !.i = @ + 1,
                              !.log = Append(@, CoreCall("unfollow-playlist", <<id>>))]
    /\ client' = ClientIdle
    /\ UNCHANGED <<api, fetch, batch, disk, io, env, auth>>

\* spotify_client.py:341-342 and operations.py:174-178: delete_playlists
\* returns True after the loop
CoreDeleteOver ==
    /\ run.kind = "core_erase"
    /\ run.pc = "deleting"
    /\ run.i = Len(ActualPlaylistIds(run.args).ids)
    /\ run' = [run EXCEPT !.pc = "liked"]
    /\ UNCHANGED <<api, fetch, batch, disk, io, env, auth, client>>

\* operations.py:182-183 and spotify_client.py:369-374: delete_liked_songs
\* reads the liked songs (get_liked_songs returns [] when a page fails) and
\* calls unlike_songs on their ids when there are any
CoreDeleteLiked ==
    /\ run.kind = "core_erase"
    /\ run.pc = "liked"
    /\ IF ~EraseLikedSongsFlag(run.args)
       THEN /\ run' = [run EXCEPT !.pc = "end"]
            /\ client' = client
       ELSE \E fetched \in BOOLEAN :
              LET track_ids == IF fetched THEN [k \in 1..run.acct.liked |-> k] ELSE <<>>
              IN  IF track_ids # <<>>
                  THEN /\ client' = ClientCalled("core", "unlike_songs", TRUE, track_ids)
                       /\ run' = [run EXCEPT !.pc = "unliking"]
                  ELSE /\ client' = client
                       /\ run' = [run EXCEPT !.pc = "end"]
    /\ UNCHANGED <<api, fetch, batch, disk, io, env, auth>>

\* spotify_client.py:373-376: unlike_songs has returned; delete_liked_songs
\* returns True whatever it returned
CoreUnliked ==
    /\ run.kind = "core_erase"
    /\ run.pc = "unliking"
    /\ client.pc = "done"
    /\ run' = [run EXCEPT
                  !.pc = "end",
                  !.log = @ \o [k \in 1..Len(client.calls) |->
                                   CoreCall("remove-saved-tracks", client.calls[k])]]
    /\ client' = ClientIdle
    /\ UNCHANGED <<api, fetch, batch, disk, io, env, auth>>

\* operations.py:186: return success
CoreEraseEnd ==
    /\ run.kind = "core_erase"
    /\ run.pc = "end"
    /\ run' = [run EXCEPT !.pc = "done", !.ret = "True"]
    /\ UNCHANGED <<api, fetch, batch, disk, io, env, auth, client>>

\* the list arguments of an erase of an account with np playlists
SelectedLists(np) ==
    {NoList} \cup {GivenList(SubList([k \in 1..np |-> k], sel, 1)) : sel \in SUBSET (1..np)}

InitCoreErase ==
    /\ api = ApiIdle
    /\ fetch = FetchIdle
    /\ batch = BatchIdle
    /\ disk = NoFile
    /\ io = IoIdle
    /\ env = EnvFree
    /\ auth = AuthIdle
    /\ client = ClientIdle
    /\ \E acct \in EraseAccounts,
          erase_type \in {"None", "playlists", "liked_songs", "both"},
          erase_playlists \in BOOLEAN, erase_liked_songs \in BOOLEAN :
         \E playlist_ids \in {NoList, GivenList([k \in 1..acct.playlists |-> k])},
            selected_playlists \in SelectedLists(acct.playlists) :
           run = [RunIdle EXCEPT
                     !.kind = "core_erase", !.pc = "start", !.acct = acct,
                     !.args = [erase_type |-> erase_type, playlist_ids |-> playlist_ids,
                               erase_playlists |-> erase_playlists,
                               erase_liked_songs |-> erase_liked_songs,
                               selected_playlists |-> selected_playlists]]

NextCoreErase ==
    \/ CoreEraseStart \/ CoreDeletePlaylist \/ CoreDeleted \/ CoreDeleteOver
    \/ CoreDeleteLiked \/ CoreUnliked \/ CoreEraseEnd
    \/ ClientEnter \/ ClientRemote \/ ClientChunk \/ ClientReturn

SpecCoreErase == InitCoreErase /\ [][NextCoreErase]_vars

\* erase_data(erase_playlists=True, erase_liked_songs=True) without a
\* playlist selection, as ui/gui.py:642-653 calls it when nothing is
\* selected
FullEraseNoSelection ==
    /\ run.kind = "core_erase"
    /\ run.args.erase_playlists
    /\ run.args.erase_liked_songs
    /\ ~run.args.playlist_ids.given
    /\ ~run.args.selected_playlists.given

\* the positions in the log of the calls named call that carry id
CoreCallsWith(call, id) ==
    {k \in 1..Len(run.log) :
        /\ run.log[k].call = call
        /\ \E j \in 1..Len(run.log[k].ids) : run.log[k].ids[j] = id}

\* C33: erase_data with erase_playlists and erase_liked_songs both true and
\* no playlist selection has, when it returns, unfollowed every playlist of
\* the account and then unliked every liked song.
C33_CoreEraseAll ==
    (FullEraseNoSelection /\ run.pc = "done") =>
        /\ \A p \in 1..run.acct.playlists : CoreCallsWith("unfollow-playlist", p) # {}
        /\ \A t \in 1..run.acct.liked : CoreCallsWith("remove-saved-tracks", t) # {}
        /\ \A j, k \in 1..Len(run.log) :
              (/\ run.log[j].call = "unfollow-playlist"
               /\ run.log[k].call = "remove-saved-tracks") => j < k

(***************************************************************************)
(* Properties of SpotifyClient (SpecClient).                               *)
(***************************************************************************)
\* C31: in add_tracks_to_playlist, like_songs and unlike_songs of either
\* copy of the client, a chunk whose remote call fails is skipped and the
\* later chunks are still attempted: the method ends having made one call
\* for every chunk of the list.
C31_ClientChunksAllAttempted ==
    (client.pc = "done" /\ client.method \in ChunkMethods /\ client.sp) =>
        Len(client.calls) = Ceil(Len(client.track_uris), ChunkSize(client.method))

\* C32: when the remote call of a decorated method raises a rate-limit
\* SpotifyException, the method is invoked again after a sleep of
\* initial_backoff * 2^(n-1) seconds for the n-th retry, at most
\* max_retries times, and a call rate-limited once that then succeeds
\* returns the success result.
C32_RateLimitRetried ==
    (/\ client.pc = "done"
     /\ client.variant = "core"
     /\ client.method \in SingleMethods
     /\ client.hist # <<>>
     /\ client.hist[1] = "rate limit") =>
        /\ Len(client.hist) >= 2
        /\ Len(client.sleeps) \in 1..max_retries
        /\ \A n \in 1..Len(client.sleeps) :
              client.sleeps[n] = initial_backoff * Pow2(n - 1)
        /\ client.hist = <<"rate limit", "return">> =>
              client.ret = Success(client.method)

(***************************************************************************)
(* The three pipelines of main.py side by side: one run of run_export,     *)
(* run_import or run_erase.                                                *)
(***************************************************************************)
\* the accounts an export of the three pipelines runs on: up to one
\* playlist and one liked song
PipelineAccounts == {a \in Accounts : a.playlists <= 1 /\ a.liked <= 1}

InitPipelines ==
    \/ /\ api = ApiIdle
       /\ fetch = FetchIdle
       /\ batch = BatchIdle
       /\ io = IoIdle
       /\ env = EnvLimited
       /\ auth = AuthIdle
       /\ client = ClientIdle
       /\ disk = NoFile
       /\ \E selective \in BOOLEAN, acct \in PipelineAccounts :
             run = [RunIdle EXCEPT !.kind = "export", !.pc = "start",
                                   !.selective = selective, !.acct = acct]
    \/ InitImport
    \/ InitErase

NextPipelines == NextExport \/ NextImport \/ NextErase

SpecPipelines == InitPipelines /\ [][NextPipelines]_vars

\* the calls of kind among the mutating remote calls issued so far
IssuedOf(kinds) == {k \in 1..Len(Issued) : Issued[k].call \in kinds}

\* C39: run_export calls no writer, so it issues no create-playlist,
\* add-items, save-tracks, remove-saved-tracks or unfollow-playlist call;
\* run_import issues no unfollow-playlist and no remove-saved-tracks call;
\* run_erase issues no create-playlist, add-items or save-tracks call,
\* never calls save_data and leaves the snapshot file as it is.
C39_OwnDirectionOnly ==
    /\ [](/\ run.kind = "export" => (Issued = <<>> /\ batch = BatchIdle)
          /\ run.kind = "import" =>
                IssuedOf({"unfollow-playlist", "remove-saved-tracks"}) = {}
          /\ run.kind = "erase" =>
                /\ IssuedOf({"create-playlist", "add-items", "save-tracks"}) = {}
                /\ io = IoIdle)
    /\ [][run.kind = "erase" => disk' = disk]_vars

\* an erase that unfollowed a playlist and removed liked songs has ended
\* with the old snapshot file in place
C39_Witness ==
    /\ run.kind = "erase"
    /\ run.pc = "done"
    /\ disk # NoFile
    /\ IssuedOf({"unfollow-playlist"}) # {}
    /\ IssuedOf({"remove-saved-tracks"}) # {}

(***************************************************************************)
(* The whole model: the manager is used for one wrapped call, for a series *)
(* of paginated fetches or for one writer.                                 *)
(***************************************************************************)
Init == InitCall \/ InitFetch \/ InitBatch \/ InitSave \/ InitExport \/ InitImport \/ InitErase
        \/ InitAuth \/ InitCodec \/ InitMigrate

Next == NextCall \/ NextFetch \/ NextBatch \/ NextSave \/ NextExport \/ NextImport \/ NextErase
        \/ NextAuth \/ NextCodec \/ NextMigrate

Spec == Init /\ [][Next]_vars

====
